---- MODULE Spec2Model ----
(***************************************************************************)
(* A model of the shell of Souvlaki42/codecrafters-shell-rust.             *)
(*                                                                         *)
(*  - Spec / LiveSpec: the REPL of src/src/main.rs (main, handle,          *)
(*    handle_cmd, handle_external, the built-in handlers, parse_args,      *)
(*    get_redirect, checks_redirects) with the anonymous pipes, the        *)
(*    built-in threads and the external children of one input line.        *)
(*  - FinSpec: finalize_executions of src/src/shell/execution.rs.          *)
(*  - LexSpec: tokenize of src/src/shell/lexer.rs with process_string of   *)
(*    src/src/strings.rs.                                                  *)
(*  - PathSpec: the get_external_executables of                            *)
(*    src/src/shell/execution.rs, src/src/main.rs and                      *)
(*    src/src/execution.rs on the directories of PATH.                     *)
(*  - ExecSpec: execute of src/src/shell/execution.rs with Value of        *)
(*    src/src/shell/value.rs, RW of src/src/shell/rw.rs, write_output and  *)
(*    open_file_create_dirs.                                               *)
(*  - WriteSpec: write_output of src/src/shell/execution.rs on every       *)
(*    shape of CommandOutput.                                              *)
(*  - SendSpec: send_output of src/src/execution.rs.                       *)
(*  - CwdSpec: the REPL of Spec on lines of cd and pwd.                    *)
(*                                                                         *)
(* Text is a sequence of one-character strings.                            *)
(***************************************************************************)
EXTENDS Integers, Sequences, FiniteSets, TLC

(***************************************************************************)
(* Bounds of the model.                                                    *)
(***************************************************************************)
\* An input line is at most MaxParts texts of Parts joined by " | ".
MaxParts == 3
\* finalize_executions is run on lists of at most MaxExecs stage handles.
MaxExecs == 3
\* tokenize and process_string are run on texts of at most MaxPieces texts of
\* Pieces put one after the other.
MaxPieces == 4
\* A directory of PATH has at most MaxFiles entries.
MaxFiles == 2
\* An argument word of execute has at most MaxWord characters.
MaxWord == 3

(***************************************************************************)
(* Words used in the input lines.                                          *)
(***************************************************************************)
SP == " "
PIPE == "|"
SQ == "'"
DQ == "\""
BS == "\\"

echo == <<"e", "c", "h", "o">>
type == <<"t", "y", "p", "e">>
exit == <<"e", "x", "i", "t">>
pwd == <<"p", "w", "d">>
cd == <<"c", "d">>
history == <<"h", "i", "s", "t", "o", "r", "y">>
cat == <<"c", "a", "t">>
nosuch == <<"n", "o">>

\* main.rs:22
BUILTINS == {echo, type, exit, pwd, cd, history}

\* The keys of the map get_external_executables builds: every executable
\* file name of every PATH directory (first seen wins for the stored path).
\* PathDirs: the executable files of the directories of PATH, in PATH order.
get_external_executables ==
    LET PathDirs == << {cat}, {cat, echo} >> IN
    UNION {PathDirs[d] : d \in DOMAIN PathDirs}

\* The directories that exist, as the text of their path ("" is the current
\* directory).
ExistingDirs == {<< >>, <<"d">>}

(***************************************************************************)
(* Text helpers: str::trim, str::split, Vec::join.                         *)
(***************************************************************************)
\* char::is_whitespace, for the characters of the model.
is_whitespace(c) == c \in {" ", "\t"}

RECURSIVE trim_start(_)
trim_start(s) ==
    IF s = << >> THEN s
    ELSE IF is_whitespace(Head(s)) THEN trim_start(Tail(s)) ELSE s

RECURSIVE trim_end(_)
trim_end(s) ==
    IF s = << >> THEN s
    ELSE IF is_whitespace(s[Len(s)]) THEN trim_end(SubSeq(s, 1, Len(s) - 1)) ELSE s

trim(s) == trim_end(trim_start(s))

\* line.split("|"): the pieces between the occurrences of the character,
\* one more piece than there are occurrences (empty pieces included).
RECURSIVE split_from(_, _, _, _)
split_from(s, i, cur, acc) ==
    IF i > Len(s) THEN Append(acc, cur)
    ELSE IF s[i] = PIPE THEN split_from(s, i + 1, << >>, Append(acc, cur))
    ELSE split_from(s, i + 1, Append(cur, s[i]), acc)

split(s) == split_from(s, 1, << >>, << >>)

\* main.rs:621
SplitStages(l) == LET pieces == split(l) IN [i \in 1..Len(pieces) |-> trim(pieces[i])]

(***************************************************************************)
(* parse_args (main.rs:165-219).                                           *)
(***************************************************************************)
RECURSIVE parse_from(_, _, _)
parse_from(s, i, st) ==
    IF i > Len(s) THEN
        IF st.current # << >> THEN Append(st.args, st.current) ELSE st.args
    ELSE
        LET c == s[i] IN
        IF st.escaped THEN
            parse_from(s, i + 1,
                [st EXCEPT !.current = Append(@, c), !.escaped = FALSE])
        ELSE IF c = BS /\ ~st.in_single /\ ~st.in_double THEN
            parse_from(s, i + 1, [st EXCEPT !.escaped = TRUE])
        ELSE IF c = BS /\ ~st.in_single /\ st.in_double
                /\ i < Len(s) /\ s[i + 1] \in {DQ, BS} THEN
            parse_from(s, i + 1, [st EXCEPT !.escaped = TRUE])
        ELSE IF c = SQ /\ ~st.in_double THEN
            parse_from(s, i + 1, [st EXCEPT !.in_single = ~@])
        ELSE IF c = DQ /\ ~st.in_single THEN
            parse_from(s, i + 1, [st EXCEPT !.in_double = ~@])
        ELSE IF is_whitespace(c) /\ ~st.in_single /\ ~st.in_double THEN
            IF st.current # << >> THEN
                parse_from(s, i + 1,
                    [st EXCEPT !.args = Append(@, st.current), !.current = << >>])
            ELSE parse_from(s, i + 1, st)
        ELSE
            parse_from(s, i + 1, [st EXCEPT !.current = Append(@, c)])

parse_args(input) ==
    parse_from(trim(input), 1,
        [args |-> << >>, current |-> << >>,
         in_single |-> FALSE, in_double |-> FALSE, escaped |-> FALSE])

(***************************************************************************)
(* get_redirect (main.rs:221-232) and checks_redirects (main.rs:481-505).  *)
(***************************************************************************)
None == [some |-> FALSE, val |-> << >>]
Some(v) == [some |-> TRUE, val |-> v]

\* panic: args[pos + 1] is out of bounds when the operator is the last word.
\* remove: Vec::remove(i) on a 1-based sequence.  pos: Iterator::position,
\* the first place of a word of redirect_pipes, 0 if there is none.
get_redirect(args, redirect_pipes) ==
    LET remove(s, i) == SubSeq(s, 1, i - 1) \o SubSeq(s, i + 1, Len(s))
        pos == IF \E i \in 1..Len(args) : args[i] \in redirect_pipes
               THEN CHOOSE i \in 1..Len(args) :
                       /\ args[i] \in redirect_pipes
                       /\ \A j \in 1..(i - 1) : args[j] \notin redirect_pipes
               ELSE 0
    IN
    IF pos = 0 THEN [panic |-> FALSE, path |-> None, args |-> args]
    ELSE IF pos + 1 > Len(args) THEN [panic |-> TRUE, path |-> None, args |-> args]
    ELSE [panic |-> FALSE, path |-> Some(args[pos + 1]),
          args |-> remove(remove(args, pos + 1), pos)]

\* The text before the last "/" of a path ("" when there is none).
RECURSIVE parent(_)
parent(path) ==
    IF path = << >> THEN << >>
    ELSE IF path[Len(path)] = "/" THEN SubSeq(path, 1, Len(path) - 1)
    ELSE parent(SubSeq(path, 1, Len(path) - 1))

\* OpenOptions::open with create(true): it creates the file, never a
\* directory, and fails when the parent directory does not exist.
open_ok(path) == parent(path) \in ExistingDirs

\* Ok(Some(file)) | Ok(None) | Err: the append path is looked at first.
checks_redirects(redirect_path, append_path) ==
    IF append_path.some THEN
        [err |-> ~open_ok(append_path.val), file |-> append_path, append |-> TRUE]
    ELSE IF redirect_path.some THEN
        [err |-> ~open_ok(redirect_path.val), file |-> redirect_path, append |-> FALSE]
    ELSE [err |-> FALSE, file |-> None, append |-> FALSE]

(***************************************************************************)
(* IOSource (main.rs:26-34).                                               *)
(***************************************************************************)
Stdin == [kind |-> "Stdin", pipe |-> 0, path |-> << >>, append |-> FALSE]
Stdout == [kind |-> "Stdout", pipe |-> 0, path |-> << >>, append |-> FALSE]
Stderr == [kind |-> "Stderr", pipe |-> 0, path |-> << >>, append |-> FALSE]
PipeReader(p) == [kind |-> "PipeReader", pipe |-> p, path |-> << >>, append |-> FALSE]
PipeWriter(p) == [kind |-> "PipeWriter", pipe |-> p, path |-> << >>, append |-> FALSE]
File(path, append) == [kind |-> "File", pipe |-> 0, path |-> path, append |-> append]

(***************************************************************************)
(* One iteration of the dispatch loop of handle (main.rs:520-557), up to   *)
(* the call of handle_cmd: the words, the redirections and the three       *)
(* endpoints of stage `index` (0-based) of `n`, or how the iteration ends  *)
(* before handle_cmd.  pipe_readers and pipe_writers are the slot vectors. *)
(***************************************************************************)
\* main.rs:529-537
input_reader(index) == IF index = 0 THEN Stdin ELSE PipeReader(index - 1)

\* A faulty variant of output_writer: the stage's stdout is never bound to a pipe.
output_writer_never_piped(index, n, out) ==
    IF out.file.some THEN File(out.file.val, out.append) ELSE Stdout

\* main.rs:539-552
output_writer(index, n, out) ==
    IF out.file.some THEN File(out.file.val, out.append)
    ELSE IF index + 1 = n THEN Stdout
    ELSE PipeWriter(index)

\* main.rs:554-557
error_writer(err) ==
    IF err.file.some THEN File(err.file.val, err.append) ELSE Stderr

StagePlan(input, index, n, readers, writers) ==
    LET parsed == parse_args(input)
        args0 == IF parsed = << >> THEN << >> ELSE Tail(parsed)
        r1 == get_redirect(args0, {<<">">>, <<"1", ">">>})
        r2 == get_redirect(r1.args, {<<"2", ">">>})
        r3 == get_redirect(r2.args, {<<">", ">">>, <<"1", ">", ">">>})
        r4 == get_redirect(r3.args, {<<"2", ">", ">">>})
        out == checks_redirects(r1.path, r3.path)
        err == checks_redirects(r2.path, r4.path)
        takes_writer == ~out.err /\ ~out.file.some /\ index + 1 # n
        base == [command |-> IF parsed = << >> THEN << >> ELSE trim(parsed[1]),
                 args |-> r4.args,
                 input |-> input_reader(index),
                 output |-> output_writer(index, n, out),
                 error |-> error_writer(err),
                 took_reader |-> FALSE, took_writer |-> FALSE]
    IN
    IF parsed = << >> THEN [base EXCEPT !.args = << >>] @@ [end |-> "panic"]
    ELSE IF r1.panic \/ (~r1.panic /\ r2.panic)
            \/ (~r1.panic /\ ~r2.panic /\ r3.panic)
            \/ (~r1.panic /\ ~r2.panic /\ ~r3.panic /\ r4.panic)
        THEN base @@ [end |-> "panic"]
    ELSE IF index > 0 /\ readers[index] # "Some" THEN base @@ [end |-> "panic"]
    ELSE IF out.err THEN [base EXCEPT !.took_reader = index > 0] @@ [end |-> "err"]
    ELSE IF takes_writer /\ writers[index + 1] # "Some"
        THEN [base EXCEPT !.took_reader = index > 0] @@ [end |-> "panic"]
    ELSE IF err.err
        THEN [base EXCEPT !.took_reader = index > 0, !.took_writer = takes_writer]
                @@ [end |-> "err"]
    ELSE [base EXCEPT !.took_reader = index > 0, !.took_writer = takes_writer]
                @@ [end |-> "cmd"]

(***************************************************************************)
(* The input lines: up to MaxParts texts of Parts joined by " | ", and the *)
(* lines of Singles.                                                       *)
(***************************************************************************)
RECURSIVE join(_, _)
join(ws, sep) ==
    IF ws = << >> THEN << >>
    ELSE IF Len(ws) = 1 THEN ws[1]
    ELSE ws[1] \o sep \o join(Tail(ws), sep)

Parts ==
    { join(<<echo, <<"a">>>>, <<SP>>),                      \* echo a
      cat,                                                   \* cat
      nosuch,                                                \* no
      << >>,                                                 \* (nothing)
      <<SP>>,                                                \* (a space)
      join(<<echo, <<"a">>, <<">">>, <<"f">>>>, <<SP>>),     \* echo a > f
      join(<<cat, <<">">>, <<"x", "/", "f">>>>, <<SP>>),     \* cat > x/f
      echo \o <<SP, SQ, "a", PIPE, "a", SQ>>,                \* echo 'a|a'
      exit }                                                 \* exit

Pipelines ==
    { join(ps, <<SP, PIPE, SP>>) :
        ps \in UNION { [1..n -> Parts] : n \in 1..MaxParts } }

\* Lines of one stage whose words put the redirections and the quoting of
\* parse_args to work.
Singles ==
    { join(<<echo, <<"a">>, <<">">>>>, <<SP>>),                          \* echo a >
      join(<<echo, <<"a">>, <<"2", ">", ">">>>>, <<SP>>),                \* echo a 2>>
      join(<<echo, <<"a">>, <<">">>, <<"f">>, <<">">>, <<"g">>>>, <<SP>>),       \* echo a > f > g
      join(<<echo, <<"a">>, <<">", ">">>, <<"g">>, <<">">>, <<"f">>>>, <<SP>>),  \* echo a >> g > f
      join(<<echo, <<"a">>, <<">">>, <<"f">>, <<"2", ">">>, <<"g">>>>, <<SP>>),  \* echo a > f 2> g
      join(<<nosuch, <<"2", ">">>, <<"f">>, <<"2", ">", ">">>, <<"g">>>>, <<SP>>), \* no 2> f 2>> g
      echo \o <<SP, SQ, "a">>,                                           \* echo 'a
      echo \o <<SP, DQ, "a">>,                                           \* echo "a
      echo \o <<SP, "a", BS>>,                                          \* echo a\
      join(<<exit, <<"7">>>>, <<SP>>),                                   \* exit 7
      join(<<exit, <<"a">>>>, <<SP>>),                                   \* exit a
      join(<<exit, <<"7">>, <<"a">>>>, <<SP>>) }                         \* exit 7 a

Lines == Pipelines \cup Singles

(***************************************************************************)
(* State.                                                                  *)
(***************************************************************************)
VARIABLES
    shell,          \* "running" | "panicked" (a panic of the main thread)
                    \* | "failed" (main returned Err) | "exited" (process::exit
                    \* or the end of main)
    pc,             \* where main is: "prompt" (readline), "pipes", "dispatch",
                    \* "join", "wait" (the four loops of handle)
    line,           \* the line readline returned last
    inputs,         \* handle's inputs: the stages of the line
    pipe_readers,   \* handle's slot vectors: "Some" | "None"
    pipe_writers,
    pipes,          \* the anonymous pipes: who holds each end, and the data
                    \* written: [rd, wr: "slot" | "thread" | "child" | "closed",
                    \*           data: Nat]
    index,          \* the stage the dispatch loop is at (0-based)
    stages,         \* the stages dispatched so far (handle_cmd was called)
    thread,         \* per dispatched stage: "none" | "running" | "ok" | "err"
    child,          \* per dispatched stage: "none" | "running" | "exited"
    handles,        \* handle's handles: the stages whose thread is to be joined
    children,       \* handle's children: the stages whose child is to be awaited
    termEof,        \* the terminal has delivered end-of-file to the foreground
    cwd,            \* the process's current working directory
    readline,       \* what editor.readline returned last: "none" | "Ok"
                    \* | "Interrupted" | "Eof" | "Error"
    printed,        \* per dispatched stage: the directory its handle_pwd
                    \* wrote, if it wrote one
    execs,          \* finalize_executions: its argument, the stage handles
    fin_i,          \* finalize_executions: how many handles the iterator gave
    fin_pc,         \* finalize_executions: "idle" | "run" | "done"
    waited,         \* finalize_executions: the places of the handles that
                    \* wait or wait_with_output was called on, in call order
    fin_result,     \* finalize_executions: the CommandResult returned
    lex_pc,         \* the lexer run: "idle" | "process" | "scan" | "done"
    lex_input,      \* tokenize / process_string: the text given
    processed,      \* the result of process_string(lex_input)
    consumed,       \* tokenize: how many characters the for loop has taken
    tokens,         \* tokenize: its locals
    current_token,
    in_quote,
    escaped,
    tokenized,      \* the result of tokenize(lex_input)
    exit_status,    \* the code process::exit was called with, if it was
    exec_pc,        \* the run of execute: "idle" | "index" | "main_index"
                    \* | "old_index" | "execute" | "child" | "write" | "done"
    path_dirs,      \* the directories of PATH, in PATH order: per directory
                    \* its path and its entries in read_dir order
    path_index,     \* the PathIndex of shell/execution.rs (ExecuteArgs.path)
    main_path,      \* the map main.rs's get_external_executables returns
    old_path,       \* the map execution.rs's get_external_executables returns
    params,         \* ExecuteArgs.params: the command name and its arguments
    stdout,         \* ExecuteArgs.stdout and .stderr: the RW of the command
    stderr,
    exec_output,    \* the ExecutionOutput execute returned
    spawned,        \* the program execute spawned, if any, and its arguments
    current_dir,    \* env::current_dir of the process
    files,          \* the content of each file, if it exists
    term_out,       \* what was written to the inherited stdout and stderr
    term_err,
    io_log          \* the opens of files and the writes that reached a file
                    \* or the terminal, in the order they were made

shellVars == <<shell, pc, line, inputs, pipe_readers, pipe_writers, pipes, index,
               stages, thread, child, handles, children, termEof, cwd, readline,
               printed>>
finVars == <<execs, fin_i, fin_pc, waited, fin_result>>
lexVars == <<lex_pc, lex_input, processed, consumed, tokens, current_token, in_quote,
             escaped, tokenized>>
execVars == <<exec_pc, path_dirs, path_index, main_path, old_path, params, stdout, stderr,
              exec_output, spawned, current_dir, files, term_out, term_err, io_log>>
vars == <<shellVars, finVars, lexVars, execVars, exit_status>>

home_dir == <<"~">>

ShellInit ==
    /\ shell = "running"
    /\ pc = "prompt"
    /\ line = << >>
    /\ inputs = << >>
    /\ pipe_readers = << >>
    /\ pipe_writers = << >>
    /\ pipes = << >>
    /\ index = 0
    /\ stages = << >>
    /\ thread = << >>
    /\ child = << >>
    /\ handles = << >>
    /\ children = << >>
    /\ termEof = FALSE
    /\ cwd = home_dir
    /\ readline = "none"
    /\ printed = << >>

\* CommandOutput (shell/execution.rs:62-69) and CommandResult (:77-81).
NoOutput == [shape |-> "NoOutput", out |-> "", err |-> "", flush |-> FALSE]
CmdStdout(t, flush) == [shape |-> "Stdout", out |-> t, err |-> "", flush |-> flush]
CmdStderr(t, flush) == [shape |-> "Stderr", out |-> "", err |-> t, flush |-> flush]
StdoutAndStderr(o, e, flush) ==
    [shape |-> "StdoutAndStderr", out |-> o, err |-> e, flush |-> flush]
CommandResult(output, exit_code) == [output |-> output, exit_code |-> exit_code]

FinIdle ==
    /\ execs = << >>
    /\ fin_i = 0
    /\ fin_pc = "idle"
    /\ waited = << >>
    /\ fin_result = CommandResult(NoOutput, 0)

\* No text is being lexed.
NotRun == [ok |-> FALSE, val |-> << >>, error |-> "not run"]

LexIdle ==
    /\ lex_pc = "idle"
    /\ lex_input = << >>
    /\ processed = NotRun
    /\ consumed = 0
    /\ tokens = << >>
    /\ current_token = << >>
    /\ in_quote = None
    /\ escaped = FALSE
    /\ tokenized = NotRun

\* execute is not being run.
ExecIdle ==
    /\ exec_pc = "idle"
    /\ path_dirs = << >>
    /\ path_index = << >>
    /\ main_path = << >>
    /\ old_path = << >>
    /\ params = << >>
    /\ stdout = [kind |-> "Stdout", path |-> << >>, append |-> FALSE]
    /\ stderr = [kind |-> "Stderr", path |-> << >>, append |-> FALSE]
    /\ exec_output = [kind |-> "None"]
    /\ spawned = None
    /\ current_dir = << >>
    /\ files = << >>
    /\ term_out = << >>
    /\ term_err = << >>
    /\ io_log = << >>

\* No process::exit yet.
NoExit == [some |-> FALSE, val |-> 0]

Init == ShellInit /\ FinIdle /\ LexIdle /\ ExecIdle /\ exit_status = NoExit

(***************************************************************************)
(* main (main.rs:592-626).                                                 *)
(***************************************************************************)
\* What the end of handle (return or unwinding) and the end of the process
\* do to the pipe ends the parent holds: they are closed.
DropSlots(ps) ==
    [p \in DOMAIN ps |->
        [ps[p] EXCEPT !.rd = IF @ = "slot" THEN "closed" ELSE @,
                      !.wr = IF @ = "slot" THEN "closed" ELSE @]]

\* A faulty variant of pipes_needed: one pipe per stage.
pipes_needed_per_stage(n) == n

\* main.rs:514: the range of the pipe loop, 0..inputs.len() - 1.
pipes_needed(n) == n - 1

\* readline returns Ok(line), one of lines: the line is split into stages
\* and handle starts.
ReadLineOf(lines) ==
    /\ shell = "running"
    /\ pc = "prompt"
    /\ \E l \in lines :
        /\ line' = l
        /\ inputs' = SplitStages(l)
        /\ pc' = IF pipes_needed(Len(SplitStages(l))) = 0 THEN "dispatch" ELSE "pipes"
    /\ readline' = "Ok"
    /\ UNCHANGED <<shell, pipe_readers, pipe_writers, pipes, index, stages, thread,
                   child, handles, children, termEof, cwd, printed, finVars, lexVars,
                   execVars, exit_status>>

ReadLine == ReadLineOf(Lines)

\* A faulty variant of ReadInterrupted: the loop is left as for end-of-input.
ReadInterrupted_breaks ==
    /\ shell = "running"
    /\ pc = "prompt"
    /\ readline' = "Interrupted"
    /\ shell' = "exited"
    /\ UNCHANGED <<pc, line, inputs, pipe_readers, pipe_writers, pipes, index,
                   stages, thread, child, handles, children, termEof, cwd, printed,
                   finVars, lexVars, execVars, exit_status>>

\* readline returns Err(Interrupted): "^C", continue.  The editor has
\* dropped what was typed; nothing of it gets to the loop.
ReadInterrupted ==
    /\ shell = "running"
    /\ pc = "prompt"
    /\ readline' = "Interrupted"
    /\ UNCHANGED <<shell, pc, line, inputs, pipe_readers, pipe_writers, pipes, index,
                   stages, thread, child, handles, children, termEof, cwd, printed,
                   finVars, lexVars, execVars, exit_status>>

\* readline returns Err(Eof) or another error: break, main returns Ok.
ReadEof ==
    /\ shell = "running"
    /\ pc = "prompt"
    /\ shell' = "exited"
    /\ \E r \in {"Eof", "Error"} : readline' = r
    /\ UNCHANGED <<pc, line, inputs, pipe_readers, pipe_writers, pipes, index,
                   stages, thread, child, handles, children, termEof, cwd, printed,
                   finVars, lexVars, execVars, exit_status>>

(***************************************************************************)
(* handle (main.rs:507-587).                                               *)
(***************************************************************************)
\* main.rs:514-518: one iteration of the pipe loop.  pipe()? returns the
\* error of the system call from handle, and main returns it in turn.
CreatePipe(pipe_ok) ==
    /\ shell = "running"
    /\ pc = "pipes"
    /\ Len(pipes) < pipes_needed(Len(inputs))
    /\ IF pipe_ok THEN
            /\ pipe_readers' = Append(pipe_readers, "Some")
            /\ pipe_writers' = Append(pipe_writers, "Some")
            /\ pipes' = Append(pipes, [rd |-> "slot", wr |-> "slot", data |-> 0])
            /\ pc' = IF Len(pipes) + 1 = pipes_needed(Len(inputs))
                     THEN "dispatch" ELSE "pipes"
            /\ UNCHANGED shell
       ELSE
            /\ shell' = "failed"
            /\ pipes' = DropSlots(pipes)
            /\ UNCHANGED <<pipe_readers, pipe_writers, pc>>
    /\ UNCHANGED <<line, inputs, index, stages, thread, child, handles,
                   children, termEof, cwd, readline, printed,
                   finVars, lexVars, execVars, exit_status>>

\* A faulty variant of handle_external: the endpoints of a command that is not found
\* stay with the parent until handle returns.
handle_external_keeps_ends(cmd, spawn_ok) ==
    IF cmd \notin get_external_executables
        THEN [outcome |-> "notfound", owner |-> "slot"]
    ELSE IF spawn_ok THEN [outcome |-> "child", owner |-> "child"]
    ELSE [outcome |-> "spawnfail", owner |-> "closed"]

\* handle_external (main.rs:357-386): who holds the endpoints moved into it
\* when it returns, and what the stage has become.  A name that is not
\* found, and a spawn that fails, drop them; a spawned child owns them (the
\* Command, and with it the parent's copies, is dropped at the end of the
\* statement).
handle_external(cmd, spawn_ok) ==
    IF cmd \notin get_external_executables
        THEN [outcome |-> "notfound", owner |-> "closed"]
    ELSE IF spawn_ok THEN [outcome |-> "child", owner |-> "child"]
    ELSE [outcome |-> "spawnfail", owner |-> "closed"]

\* handle_cmd (main.rs:388-479): a built-in runs in a thread of its own,
\* which owns the three endpoints; anything else is handle_external's.
handle_cmd(cmd, spawn_ok) ==
    IF cmd \in BUILTINS THEN [outcome |-> "thread", owner |-> "thread"]
    ELSE handle_external(cmd, spawn_ok)

\* The pipe ends taken from the slots of stage `index` go to `owner`.
GiveEnds(ps, plan, idx, owner) ==
    [p \in DOMAIN ps |->
        [ps[p] EXCEPT !.rd = IF plan.took_reader /\ p = idx THEN owner ELSE @,
                      !.wr = IF plan.took_writer /\ p = idx + 1 THEN owner ELSE @]]

TakeSlot(slots, taken, p) ==
    IF taken THEN [slots EXCEPT ![p] = "None"] ELSE slots

\* main.rs:520-576: one iteration of the dispatch loop, handle_cmd included.
Dispatch(spawn_ok) ==
    /\ shell = "running"
    /\ pc = "dispatch"
    /\ LET n == Len(inputs)
           plan == StagePlan(inputs[index + 1], index, n, pipe_readers, pipe_writers)
           cmd == handle_cmd(plan.command, spawn_ok)
       IN
       /\ pipe_readers' = TakeSlot(pipe_readers, plan.took_reader, index)
       /\ pipe_writers' = TakeSlot(pipe_writers, plan.took_writer, index + 1)
       /\ IF plan.end = "cmd" THEN
            /\ pipes' = GiveEnds(pipes, plan, index, cmd.owner)
            /\ stages' = Append(stages,
                    [command |-> plan.command, args |-> plan.args,
                     input |-> plan.input, output |-> plan.output,
                     error |-> plan.error, outcome |-> cmd.outcome])
            /\ thread' = Append(thread,
                    IF cmd.outcome = "thread" THEN "running" ELSE "none")
            /\ child' = Append(child,
                    IF cmd.outcome = "child" THEN "running" ELSE "none")
            /\ handles' = IF cmd.outcome = "thread"
                            THEN Append(handles, index + 1) ELSE handles
            /\ children' = IF cmd.outcome = "child"
                            THEN Append(children, index + 1) ELSE children
            /\ printed' = Append(printed, None)
            /\ index' = index + 1
            /\ pc' = IF index + 1 < n THEN "dispatch"
                     ELSE IF handles' # << >> THEN "join" ELSE "wait"
            /\ UNCHANGED shell
          ELSE
            \* a panic (remove(0), args[pos + 1], expect) or the `?` of
            \* checks_redirects: handle ends here and so does main
            /\ shell' = IF plan.end = "panic" THEN "panicked" ELSE "failed"
            /\ pipes' = DropSlots(GiveEnds(pipes, plan, index, "closed"))
            /\ UNCHANGED <<stages, thread, child, handles, children, printed, index, pc>>
    /\ UNCHANGED <<line, inputs, termEof, cwd, readline, finVars, lexVars, execVars,
                   exit_status>>

(***************************************************************************)
(* The built-in handlers (main.rs:234-356), run by the stage's thread.     *)
(***************************************************************************)
Digits == {"0", "1", "2", "3", "4", "5", "6", "7", "8", "9"}

\* The number a text of digits is the decimal writing of (char::to_digit
\* on each of them).
RECURSIVE digits_value(_)
digits_value(d) ==
    LET to_digit(c) ==
            CASE c = "0" -> 0 [] c = "1" -> 1 [] c = "2" -> 2 [] c = "3" -> 3
              [] c = "4" -> 4 [] c = "5" -> 5 [] c = "6" -> 6 [] c = "7" -> 7
              [] c = "8" -> 8 [] c = "9" -> 9
    IN
    IF d = << >> THEN 0
    ELSE 10 * digits_value(SubSeq(d, 1, Len(d) - 1)) + to_digit(d[Len(d)])

\* str::parse::<i32>: an optional "+" or "-" and then digits only, at least
\* one.  (The words of the model are too short to leave the range of i32.)
parse_i32(w) ==
    LET signed == w # << >> /\ w[1] \in {"+", "-"}
        d == IF signed THEN Tail(w) ELSE w
    IN
    IF d = << >> \/ \E i \in DOMAIN d : d[i] \notin Digits THEN None
    ELSE IF w[1] = "-" THEN Some(0 - digits_value(d))
    ELSE Some(digits_value(d))

NoEffect ==
    [write |-> "none", exit |-> FALSE, code |-> 0, chdir |-> None, current_dir |-> FALSE]

handle_echo(args) == [NoEffect EXCEPT !.write = "output"]

\* The editor's history holds at least the line being run (auto_add_history).
handle_history(args) ==
    LET \* str::parse::<usize>: an optional "+" and then digits only.
        parses_usize(w) ==
            LET d == IF w # << >> /\ w[1] = "+" THEN Tail(w) ELSE w IN
            d # << >> /\ \A i \in 1..Len(d) : d[i] \in Digits
        is_zero(w) == \A i \in 1..Len(w) : w[i] \in {"0", "+"}
    IN
    IF Len(args) > 1 THEN [NoEffect EXCEPT !.write = "error"]
    ELSE IF Len(args) = 1 /\ ~parses_usize(args[1])
        THEN [NoEffect EXCEPT !.write = "error"]
    ELSE IF Len(args) = 1 /\ is_zero(args[1]) THEN NoEffect
    ELSE [NoEffect EXCEPT !.write = "output"]

handle_type(args) ==
    IF Len(args) # 1 THEN [NoEffect EXCEPT !.write = "error"]
    ELSE IF args[1] \in BUILTINS THEN [NoEffect EXCEPT !.write = "output"]
    ELSE IF args[1] \in get_external_executables
        THEN [NoEffect EXCEPT !.write = "output"]
    ELSE [NoEffect EXCEPT !.write = "error"]

\* main.rs:293-307: what is written is env::current_dir() and a newline.
handle_pwd(args) ==
    IF args # << >> THEN [NoEffect EXCEPT !.write = "error"]
    ELSE [NoEffect EXCEPT !.write = "output", !.current_dir = TRUE]

handle_cd(args) ==
    IF Len(args) > 1 THEN [NoEffect EXCEPT !.write = "error"]
    ELSE LET path == IF args = << >> \/ args[1] = <<"~">> THEN home_dir ELSE args[1] IN
         \* env::set_current_dir succeeds on the directories that exist
         IF path \in ExistingDirs \cup {home_dir} THEN [NoEffect EXCEPT !.chdir = Some(path)]
         ELSE [NoEffect EXCEPT !.write = "error"]

\* A faulty variant of handle_exit: the arguments are not counted.
handle_exit_any_arguments(args) ==
    IF args # << >> /\ parse_i32(args[1]).some
        THEN [NoEffect EXCEPT !.exit = TRUE, !.code = parse_i32(args[1]).val]
    ELSE [NoEffect EXCEPT !.exit = TRUE]

\* main.rs:347-356
handle_exit(args) ==
    IF Len(args) > 1 THEN [NoEffect EXCEPT !.write = "error"]
    ELSE IF args # << >> /\ parse_i32(args[1]).some
        THEN [NoEffect EXCEPT !.exit = TRUE, !.code = parse_i32(args[1]).val]
    ELSE [NoEffect EXCEPT !.exit = TRUE]

\* The closure handle_cmd spawns for a built-in (main.rs:396-476).
BuiltinEffect(cmd, args) ==
    IF cmd = echo THEN handle_echo(args)
    ELSE IF cmd = type THEN handle_type(args)
    ELSE IF cmd = pwd THEN handle_pwd(args)
    ELSE IF cmd = cd THEN handle_cd(args)
    ELSE IF cmd = exit THEN handle_exit(args)
    ELSE handle_history(args)

\* Write::write_all on an IOSource (main.rs:49-59): a write on a pipe whose
\* read end is closed fails (EPIPE); any other write succeeds.
write_fails(src, ps) == src.kind = "PipeWriter" /\ ps[src.pipe + 1].rd = "closed"

write_all(src, ps) ==
    IF src.kind = "PipeWriter" /\ ~write_fails(src, ps)
    THEN [ps EXCEPT ![src.pipe + 1].data = @ + 1]
    ELSE ps

\* The ends `owner` holds for stage k are closed (the IOPipes of a thread
\* that ends, the descriptors of a child that exits).
CloseEnds(ps, k, owner) ==
    [p \in DOMAIN ps |->
        [ps[p] EXCEPT !.rd = IF @ = owner /\ p = k - 1 THEN "closed" ELSE @,
                      !.wr = IF @ = owner /\ p = k THEN "closed" ELSE @]]

\* The thread of built-in stage k runs its handler to the end.
ThreadRun(k) ==
    /\ shell = "running"
    /\ k \in DOMAIN thread
    /\ thread[k] = "running"
    /\ LET st == stages[k]
           eff == BuiltinEffect(st.command, st.args)
           dest == IF eff.write = "output" THEN st.output ELSE st.error
           failed == eff.write # "none" /\ write_fails(dest, pipes)
           written == IF eff.write = "none" THEN pipes ELSE write_all(dest, pipes)
       IN
       IF eff.exit THEN
            /\ shell' = "exited"
            /\ exit_status' = [some |-> TRUE, val |-> eff.code]
            /\ pipes' = DropSlots(CloseEnds(pipes, k, "thread"))
            /\ UNCHANGED <<thread, cwd, printed>>
       ELSE
            /\ thread' = [thread EXCEPT ![k] = IF failed THEN "err" ELSE "ok"]
            /\ pipes' = CloseEnds(written, k, "thread")
            /\ cwd' = IF eff.chdir.some THEN eff.chdir.val ELSE cwd
            /\ printed' = IF eff.current_dir /\ ~failed
                            THEN [printed EXCEPT ![k] = Some(cwd)] ELSE printed
            /\ UNCHANGED <<shell, exit_status>>
    /\ UNCHANGED <<pc, line, inputs, pipe_readers, pipe_writers, index, stages,
                   child, handles, children, termEof, readline, finVars, lexVars,
                   execVars>>

(***************************************************************************)
(* The external children and the terminal.                                 *)
(***************************************************************************)
\* The stdin of stage k is at end-of-file: the terminal has delivered it,
\* or every write end of the pipe is closed.
StdinEof(k) ==
    /\ k \in DOMAIN stages
    /\ \/ stages[k].input.kind = "Stdin" /\ termEof
       \/ stages[k].input.kind = "PipeReader"
            /\ pipes[stages[k].input.pipe + 1].wr = "closed"

\* The child of stage k exits (it may at any time; a child that reads its
\* stdin to the end exits once StdinEof holds).
ChildExit(k) ==
    /\ shell = "running"
    /\ k \in DOMAIN child
    /\ child[k] = "running"
    /\ child' = [child EXCEPT ![k] = "exited"]
    /\ pipes' = CloseEnds(pipes, k, "child")
    /\ UNCHANGED <<shell, pc, line, inputs, pipe_readers, pipe_writers, index,
                   stages, thread, handles, children, termEof, cwd, readline, printed,
                   finVars, lexVars, execVars, exit_status>>

\* The user ends the input of the foreground child (Ctrl-D).
TermEof ==
    /\ shell = "running"
    /\ ~termEof
    /\ \E k \in DOMAIN child : child[k] = "running" /\ stages[k].input.kind = "Stdin"
    /\ termEof' = TRUE
    /\ UNCHANGED <<shell, pc, line, inputs, pipe_readers, pipe_writers, pipes, index,
                   stages, thread, child, handles, children, cwd, readline, printed,
                   finVars, lexVars, execVars, exit_status>>

(***************************************************************************)
(* handle, after the dispatch loop (main.rs:578-586).                      *)
(***************************************************************************)
\* A faulty variant of Join: a thread that still runs is not waited for.
Join_does_not_block ==
    /\ shell = "running"
    /\ pc = "join"
    /\ handles # << >>
    /\ IF thread[Head(handles)] = "err" THEN
            /\ shell' = "failed"
            /\ pipes' = DropSlots(pipes)
            /\ UNCHANGED <<pc, handles>>
       ELSE
            /\ handles' = Tail(handles)
            /\ pc' = IF Tail(handles) = << >> THEN "wait" ELSE "join"
            /\ UNCHANGED <<shell, pipes>>
    /\ UNCHANGED <<line, inputs, pipe_readers, pipe_writers, index, stages, thread,
                   child, children, termEof, cwd, readline, printed,
                   finVars, lexVars, execVars, exit_status>>

\* handle.join().expect(..)?: blocks until the thread ends; its Err ends
\* handle, and main with it.
Join ==
    /\ shell = "running"
    /\ pc = "join"
    /\ handles # << >>
    /\ thread[Head(handles)] \in {"ok", "err"}
    /\ IF thread[Head(handles)] = "err" THEN
            /\ shell' = "failed"
            /\ pipes' = DropSlots(pipes)
            /\ UNCHANGED <<pc, handles>>
       ELSE
            /\ handles' = Tail(handles)
            /\ pc' = IF Tail(handles) = << >> THEN "wait" ELSE "join"
            /\ UNCHANGED <<shell, pipes>>
    /\ UNCHANGED <<line, inputs, pipe_readers, pipe_writers, index, stages, thread,
                   child, children, termEof, cwd, readline, printed,
                   finVars, lexVars, execVars, exit_status>>

\* child.wait()?: blocks until the child has exited.
Wait ==
    /\ shell = "running"
    /\ pc = "wait"
    /\ children # << >>
    /\ child[Head(children)] = "exited"
    /\ children' = Tail(children)
    /\ UNCHANGED <<shell, pc, line, inputs, pipe_readers, pipe_writers, pipes, index,
                   stages, thread, child, handles, termEof, cwd, readline, printed,
                   finVars, lexVars, execVars, exit_status>>

\* Ok(()): handle's locals and the line are dropped and main reads the next
\* line.
Return ==
    /\ shell = "running"
    /\ pc = "wait"
    /\ children = << >>
    /\ pc' = "prompt"
    /\ line' = << >>
    /\ inputs' = << >>
    /\ pipe_readers' = << >>
    /\ pipe_writers' = << >>
    /\ pipes' = << >>
    /\ index' = 0
    /\ stages' = << >>
    /\ thread' = << >>
    /\ child' = << >>
    /\ termEof' = FALSE
    /\ printed' = << >>
    /\ UNCHANGED <<shell, handles, children, cwd, readline, finVars, lexVars, execVars,
                   exit_status>>

Stage == 1..(2 * MaxParts)

Next ==
    \/ ReadLine
    \/ ReadInterrupted
    \/ ReadEof
    \/ \E pipe_ok \in BOOLEAN : CreatePipe(pipe_ok)
    \/ \E spawn_ok \in BOOLEAN : Dispatch(spawn_ok)
    \/ \E k \in Stage : ThreadRun(k)
    \/ \E k \in Stage : ChildExit(k)
    \/ TermEof
    \/ Join
    \/ Wait
    \/ Return

Spec == Init /\ [][Next]_vars

\* The scheduler runs the main thread and every built-in thread, and a child
\* whose stdin is at end-of-file exits.  Nothing is assumed of the user, nor
\* of a child whose stdin is not at end-of-file.
Fairness ==
    /\ WF_vars(Join)
    /\ WF_vars(Wait)
    /\ WF_vars(Return)
    /\ \A k \in Stage : WF_vars(ThreadRun(k))
    /\ \A k \in Stage : WF_vars(StdinEof(k) /\ ChildExit(k))

LiveSpec == Spec /\ Fairness

(***************************************************************************)
(* The shell on lines of cd and pwd (CwdSpec).                             *)
(***************************************************************************)
CwdLines ==
    { join(<<cd, <<"d">>>>, <<SP>>) \o <<SP, PIPE, SP>> \o pwd,   \* cd d | pwd
      pwd \o <<SP, PIPE, SP>> \o join(<<cd, <<"d">>>>, <<SP>>),   \* pwd | cd d
      cd \o <<SP, PIPE, SP>> \o pwd,                             \* cd | pwd
      join(<<cd, <<"x">>>>, <<SP>>) \o <<SP, PIPE, SP>> \o pwd,   \* cd x | pwd
      cat \o <<SP, PIPE, SP>> \o pwd,                            \* cat | pwd
      pwd }                                                      \* pwd

ReadCwdLine == ReadLineOf(CwdLines)

CwdNext ==
    \/ ReadCwdLine
    \/ ReadInterrupted
    \/ ReadEof
    \/ \E pipe_ok \in BOOLEAN : CreatePipe(pipe_ok)
    \/ \E spawn_ok \in BOOLEAN : Dispatch(spawn_ok)
    \/ \E k \in Stage : ThreadRun(k)
    \/ \E k \in Stage : ChildExit(k)
    \/ TermEof
    \/ Join
    \/ Wait
    \/ Return

CwdSpec == Init /\ [][CwdNext]_vars

(***************************************************************************)
(* finalize_executions (shell/execution.rs:144-201).                       *)
(***************************************************************************)
NoCode == [some |-> FALSE, val |-> 0]

\* ExecutionOutput (shell/execution.rs:71-75).  An External is a child
\* process: whether waiting on it succeeds, the exit code the OS gives for
\* it (none when a signal ended it) and what it wrote to piped streams.
Builtin(result) ==
    [kind |-> "Builtin", result |-> result, wait_ok |-> TRUE, code |-> NoCode,
     out |-> "", err |-> ""]
External(wait_ok, code, out, err) ==
    [kind |-> "External", result |-> CommandResult(NoOutput, 0), wait_ok |-> wait_ok,
     code |-> code, out |-> out, err |-> err]

ExecSamples ==
    { Builtin(CommandResult(CmdStdout("hi", FALSE), 0)),
      Builtin(CommandResult(CmdStderr("no: command not found\n", TRUE), 127)),
      External(TRUE, Some(0), "out", ""),
      External(TRUE, Some(3), "", "err"),
      External(TRUE, NoCode, "out", "err"),
      External(FALSE, NoCode, "", "") }

ExecLists == UNION { [1..n -> ExecSamples] : n \in 0..MaxExecs }

FinInit ==
    /\ ShellInit
    /\ LexIdle
    /\ ExecIdle
    /\ exit_status = NoExit
    /\ execs \in ExecLists
    /\ fin_i = 0
    /\ fin_pc = "run"
    /\ waited = << >>
    /\ fin_result = CommandResult(NoOutput, 0)

\* A faulty variant of unwrap_or_default: a missing exit code counts as a failure.
unwrap_or_one(code) == IF code.some THEN code.val ELSE 1

\* Option::unwrap_or_default on the exit code.
unwrap_or_default(code) == IF code.some THEN code.val ELSE 0

\* shell/execution.rs:158-183: what the last handle becomes.
last_result(exec) ==
    IF exec.kind = "Builtin" THEN exec.result
    ELSE IF ~exec.wait_ok
        THEN CommandResult(CmdStderr("Retrieving output error\n", TRUE), 1)
    ELSE CommandResult(StdoutAndStderr(exec.out, exec.err, TRUE),
                       unwrap_or_default(exec.code))

\* shell/execution.rs:186-196: what a handle before the last one does to the
\* run: an External whose wait fails ends it with this result.
\* shell/execution.rs:149-154: no handle at all.
FinEmpty ==
    /\ fin_pc = "run"
    /\ execs = << >>
    /\ fin_result' = CommandResult(NoOutput, 0)
    /\ fin_pc' = "done"
    /\ UNCHANGED <<execs, fin_i, waited, shellVars, lexVars, execVars, exit_status>>

\* One iteration of the while loop on a handle that is not the last.
FinStep ==
    /\ fin_pc = "run"
    /\ fin_i + 1 < Len(execs)
    /\ LET exec == execs[fin_i + 1] IN
        /\ fin_i' = fin_i + 1
        /\ waited' = IF exec.kind = "External" THEN Append(waited, fin_i + 1) ELSE waited
        /\ IF exec.kind = "External" /\ ~exec.wait_ok
            THEN /\ fin_result' = CommandResult(
                        CmdStderr("Error waiting for intermediate command\n", TRUE), 1)
                 /\ fin_pc' = "done"
            ELSE UNCHANGED <<fin_result, fin_pc>>
    /\ UNCHANGED <<execs, shellVars, lexVars, execVars, exit_status>>

\* The iteration on the last handle, which returns.
FinLast ==
    /\ fin_pc = "run"
    /\ fin_i + 1 = Len(execs)
    /\ LET exec == execs[fin_i + 1] IN
        /\ fin_i' = fin_i + 1
        /\ waited' = IF exec.kind = "External" THEN Append(waited, fin_i + 1) ELSE waited
        /\ fin_result' = last_result(exec)
        /\ fin_pc' = "done"
    /\ UNCHANGED <<execs, shellVars, lexVars, execVars, exit_status>>

FinNext == FinEmpty \/ FinStep \/ FinLast

FinSpec == FinInit /\ [][FinNext]_vars

(***************************************************************************)
(* process_string (strings.rs:98-126) with StringState (strings.rs:3-92)   *)
(* and unescape_string (strings.rs:132-154).  A result is Ok(val) or       *)
(* Err(error).                                                             *)
(***************************************************************************)
Ok(v) == [ok |-> TRUE, val |-> v, error |-> ""]
Err(e) == [ok |-> FALSE, val |-> << >>, error |-> e]

UnclosedQuote == "Unclosed quote in input"
TrailingEscape == "Trailing escape character"

\* strings.rs:132-154
RECURSIVE unescape_from(_, _, _)
unescape_from(s, i, result) ==
    IF i > Len(s) THEN result
    ELSE IF s[i] = BS THEN
        IF i < Len(s) /\ s[i + 1] \in {DQ, BS}
        THEN unescape_from(s, i + 2, Append(result, s[i + 1]))
        ELSE unescape_from(s, i + 1, Append(result, BS))
    ELSE unescape_from(s, i + 1, Append(result, s[i]))

unescape_string(s) == unescape_from(s, 1, << >>)


\* A faulty variant of finish_quote: single-quoted text is unescaped as well.
finish_quote_unescapes(state) ==
    [result |-> state.result \o unescape_string(state.current_part),
     current_part |-> << >>,
     in_quote |-> None]

\* StringState::finish_quote (strings.rs:18-32)
finish_quote(state) ==
    [result |-> state.result \o
                    (IF state.in_quote = Some(SQ) THEN state.current_part
                     ELSE unescape_string(state.current_part)),
     current_part |-> << >>,
     in_quote |-> None]

\* A faulty variant of handle_backslash: inside single quotes the backslash
\* does not take the character after it.
handle_backslash_alone(state, s, i) ==
    IF state.in_quote = Some(SQ) THEN
        [state |-> [state EXCEPT !.current_part = Append(@, BS)], next |-> i]
    ELSE IF state.in_quote = Some(DQ) THEN
        IF i <= Len(s) /\ s[i] \in {DQ, BS}
        THEN [state |-> [state EXCEPT !.current_part = Append(@, s[i])], next |-> i + 1]
        ELSE [state |-> [state EXCEPT !.current_part = Append(@, BS)], next |-> i]
    ELSE
        IF i <= Len(s)
        THEN [state |-> [state EXCEPT !.result = Append(@, s[i])], next |-> i + 1]
        ELSE [state |-> [state EXCEPT !.result = Append(@, BS)], next |-> i]

\* A faulty variant of handle_backslash: inside double quotes the backslash
\* never takes the character after it.
handle_backslash_plain_in_double_quotes(state, s, i) ==
    IF state.in_quote = Some(SQ) THEN
        IF i <= Len(s)
        THEN [state |-> [state EXCEPT !.current_part = @ \o <<BS, s[i]>>], next |-> i + 1]
        ELSE [state |-> [state EXCEPT !.current_part = Append(@, BS)], next |-> i]
    ELSE IF state.in_quote = Some(DQ) THEN
        [state |-> [state EXCEPT !.current_part = Append(@, BS)], next |-> i]
    ELSE
        IF i <= Len(s)
        THEN [state |-> [state EXCEPT !.result = Append(@, s[i])], next |-> i + 1]
        ELSE [state |-> [state EXCEPT !.result = Append(@, BS)], next |-> i]

\* A faulty variant of handle_backslash: outside quotes the backslash is
\* kept in front of the character.
handle_backslash_kept(state, s, i) ==
    IF state.in_quote = Some(SQ) THEN
        IF i <= Len(s)
        THEN [state |-> [state EXCEPT !.current_part = @ \o <<BS, s[i]>>], next |-> i + 1]
        ELSE [state |-> [state EXCEPT !.current_part = Append(@, BS)], next |-> i]
    ELSE IF state.in_quote = Some(DQ) THEN
        IF i <= Len(s) /\ s[i] \in {DQ, BS}
        THEN [state |-> [state EXCEPT !.current_part = Append(@, s[i])], next |-> i + 1]
        ELSE [state |-> [state EXCEPT !.current_part = Append(@, BS)], next |-> i]
    ELSE
        IF i <= Len(s)
        THEN [state |-> [state EXCEPT !.result = @ \o <<BS, s[i]>>], next |-> i + 1]
        ELSE [state |-> [state EXCEPT !.result = Append(@, BS)], next |-> i]

\* StringState::handle_backslash (strings.rs:34-71): the backslash has been
\* taken, s[i] is what chars.next() or chars.peek() gives; the state after
\* it and the place the iterator is at.
handle_backslash(state, s, i) ==
    IF state.in_quote = Some(SQ) THEN
        IF i <= Len(s)
        THEN [state |-> [state EXCEPT !.current_part = @ \o <<BS, s[i]>>], next |-> i + 1]
        ELSE [state |-> [state EXCEPT !.current_part = Append(@, BS)], next |-> i]
    ELSE IF state.in_quote = Some(DQ) THEN
        IF i <= Len(s) /\ s[i] \in {DQ, BS}
        THEN [state |-> [state EXCEPT !.current_part = Append(@, s[i])], next |-> i + 1]
        ELSE [state |-> [state EXCEPT !.current_part = Append(@, BS)], next |-> i]
    ELSE
        IF i <= Len(s)
        THEN [state |-> [state EXCEPT !.result = Append(@, s[i])], next |-> i + 1]
        ELSE [state |-> [state EXCEPT !.result = Append(@, BS)], next |-> i]

\* A faulty variant of finish: the text taken outside quotes is left out.
finish_forgets_result(state) ==
    IF state.in_quote.some THEN Err(UnclosedQuote) ELSE Ok(state.current_part)

\* StringState::finish (strings.rs:73-91)
finish(state) ==
    LET result ==
            IF state.current_part = << >> THEN state.result
            ELSE IF state.in_quote = Some(DQ)
                THEN state.result \o unescape_string(state.current_part)
            ELSE state.result \o state.current_part
    IN
    IF state.in_quote.some THEN Err(UnclosedQuote) ELSE Ok(result)

\* The while loop of process_string (strings.rs:102-123) from place i on.
RECURSIVE process_from(_, _, _)
process_from(s, i, state) ==
    IF i > Len(s) THEN finish(state)
    ELSE
        LET c == s[i] IN
        IF c \in {SQ, DQ} /\ ~state.in_quote.some THEN
            process_from(s, i + 1, [state EXCEPT !.in_quote = Some(c)])
        ELSE IF state.in_quote = Some(c) THEN
            process_from(s, i + 1, finish_quote(state))
        ELSE IF c = BS THEN
            LET after == handle_backslash(state, s, i + 1) IN
            process_from(s, after.next, after.state)
        ELSE IF state.in_quote.some THEN
            process_from(s, i + 1, [state EXCEPT !.current_part = Append(@, c)])
        ELSE
            process_from(s, i + 1, [state EXCEPT !.result = Append(@, c)])

\* strings.rs:98-126
process_string(s) ==
    LET \* StringState::new (strings.rs:10-16)
        new == [result |-> << >>, current_part |-> << >>, in_quote |-> None]
    IN process_from(s, 1, new)

(***************************************************************************)
(* tokenize (shell/lexer.rs:154-209), one character of its for loop at a   *)
(* time, on the texts of LexInputs.                                        *)
(***************************************************************************)
LexInputs ==
    LET Pieces == { <<"a">>, <<SP>>, <<"\t">>, <<SQ>>, <<DQ>>, <<BS>>, <<BS, BS>> } IN
    { join(ps, << >>) : ps \in UNION { [1..n -> Pieces] : n \in 0..MaxPieces } }

LexInit ==
    /\ ShellInit
    /\ FinIdle
    /\ ExecIdle
    /\ exit_status = NoExit
    /\ lex_pc = "process"
    /\ lex_input \in LexInputs
    /\ processed = NotRun
    /\ consumed = 0
    /\ tokens = << >>
    /\ current_token = << >>
    /\ in_quote = None
    /\ escaped = FALSE
    /\ tokenized = NotRun

\* process_string is called on the text.
ProcessString ==
    /\ lex_pc = "process"
    /\ processed' = process_string(lex_input)
    /\ lex_pc' = "scan"
    /\ UNCHANGED <<lex_input, consumed, tokens, current_token, in_quote, escaped,
                   tokenized, shellVars, finVars, execVars, exit_status>>

\* A faulty variant of is_separator: whitespace ends a word inside quotes too.
is_separator_in_quotes(c, quote) == c \in {SP, "\t"}

\* shell/lexer.rs:183: ' ' | '\t' if in_quote.is_none()
is_separator(c, quote) == c \in {SP, "\t"} /\ ~quote.some

\* shell/lexer.rs:162-193: one iteration of the for loop of tokenize.
TokenizeChar ==
    /\ lex_pc = "scan"
    /\ consumed < Len(lex_input)
    /\ LET c == lex_input[consumed + 1] IN
        /\ consumed' = consumed + 1
        /\ IF escaped THEN
                /\ current_token' = current_token \o <<BS, c>>
                /\ escaped' = FALSE
                /\ UNCHANGED <<tokens, in_quote>>
           ELSE IF c = BS THEN
                /\ escaped' = TRUE
                /\ UNCHANGED <<tokens, current_token, in_quote>>
           ELSE IF c \in {SQ, DQ} /\ ~in_quote.some THEN
                /\ in_quote' = Some(c)
                /\ current_token' = Append(current_token, c)
                /\ UNCHANGED <<tokens, escaped>>
           ELSE IF in_quote = Some(c) THEN
                /\ in_quote' = None
                /\ current_token' = Append(current_token, c)
                /\ UNCHANGED <<tokens, escaped>>
           ELSE IF is_separator(c, in_quote) THEN
                /\ tokens' = IF current_token # << >>
                              THEN Append(tokens, current_token) ELSE tokens
                /\ current_token' = << >>
                /\ UNCHANGED <<in_quote, escaped>>
           ELSE
                /\ current_token' = Append(current_token, c)
                /\ UNCHANGED <<tokens, in_quote, escaped>>
    /\ UNCHANGED <<lex_pc, lex_input, processed, tokenized, shellVars, finVars, execVars, exit_status>>

\* Iterator::collect into a Result: the words, or the first error.
collect(results) ==
    IF \E i \in DOMAIN results : ~results[i].ok
    THEN LET first == CHOOSE i \in DOMAIN results :
                        /\ ~results[i].ok
                        /\ \A j \in 1..(i - 1) : results[j].ok
         IN Err(results[first].error)
    ELSE Ok([i \in DOMAIN results |-> results[i].val])

\* shell/lexer.rs:195-208: the end of tokenize.
TokenizeEnd ==
    /\ lex_pc = "scan"
    /\ consumed = Len(lex_input)
    /\ LET all == IF current_token # << >>
                  THEN Append(tokens, current_token) ELSE tokens
       IN
       IF escaped THEN tokenized' = Err(TrailingEscape) /\ UNCHANGED tokens
       ELSE IF in_quote.some THEN tokenized' = Err(UnclosedQuote) /\ UNCHANGED tokens
       ELSE /\ tokens' = all
            /\ tokenized' = collect([i \in DOMAIN all |-> process_string(all[i])])
    /\ lex_pc' = "done"
    /\ UNCHANGED <<lex_input, processed, consumed, current_token, in_quote, escaped,
                   shellVars, finVars, execVars, exit_status>>

LexNext == ProcessString \/ TokenizeChar \/ TokenizeEnd

LexSpec == LexInit /\ [][LexNext]_vars

(***************************************************************************)
(* The directories of PATH and the three get_external_executables of the   *)
(* repository (PathSpec).                                                  *)
(***************************************************************************)
\* shell/execution.rs:16
shell_BUILTINS == {echo, type, exit, pwd, cd}

\* A directory entry: its file name, whether it is a regular file, and
\* whether one of its execute bits is set.
DirEntry(file_name, is_file, mode_x) ==
    [file_name |-> file_name, is_file |-> is_file, mode_x |-> mode_x]

\* What read_dir may give for a directory: at most MaxFiles entries of
\* different names, in any order.  The entries are cat as an executable
\* file, as a file without execute bit and as a directory, cat.sh and echo.
Listings ==
    LET DirEntries ==
            { DirEntry(cat, TRUE, TRUE),
              DirEntry(cat, TRUE, FALSE),
              DirEntry(cat, FALSE, TRUE),
              DirEntry(cat \o <<".", "s", "h">>, TRUE, TRUE),
              DirEntry(echo, TRUE, TRUE) }
    IN
    { l \in UNION { [1..n -> DirEntries] : n \in 0..MaxFiles } :
        \A i, j \in DOMAIN l : i # j => l[i].file_name # l[j].file_name }

\* PATH is /x:/y.
PathNames == << <<"/", "x">>, <<"/", "y">> >>

PathContents ==
    { [d \in DOMAIN PathNames |-> [dir |-> PathNames[d], entries |-> ls[d]]] :
        ls \in [DOMAIN PathNames -> Listings] }

\* Path::file_stem: the file name up to its last ".", a first "." apart.
file_stem(file_name) ==
    LET dots == {i \in 2..Len(file_name) : file_name[i] = "."} IN
    IF dots = {} THEN file_name
    ELSE SubSeq(file_name, 1, (CHOOSE i \in dots : \A j \in dots : j <= i) - 1)

\* The entries of all the directories, in PATH order and read_dir order,
\* each with the place of its directory in PATH and its DirEntry::path.
RECURSIVE flatten(_, _)
flatten(dirs, d) ==
    IF d > Len(dirs) THEN << >>
    ELSE [i \in DOMAIN dirs[d].entries |->
            [place |-> d,
             entry |-> dirs[d].entries[i],
             path |-> dirs[d].dir \o <<"/">> \o dirs[d].entries[i].file_name]]
         \o flatten(dirs, d + 1)

\* A faulty variant of first_seen: a later pair replaces an earlier one.
RECURSIVE last_seen(_, _)
last_seen(pairs, map) ==
    IF pairs = << >> THEN map
    ELSE last_seen(Tail(pairs),
            [k \in DOMAIN map \cup {Head(pairs).name} |->
                IF k = Head(pairs).name THEN Head(pairs) ELSE map[k]])

\* The map a scan of (name, path) pairs leaves when a name that is already
\* there is skipped: unique_by (shell/execution.rs:35), or_insert
\* (main.rs:158), contains_key (execution.rs:31).
RECURSIVE first_seen(_, _)
first_seen(pairs, map) ==
    IF pairs = << >> THEN map
    ELSE first_seen(Tail(pairs),
            [k \in DOMAIN map \cup {Head(pairs).name} |->
                IF k \in DOMAIN map THEN map[k] ELSE Head(pairs)])

\* shell/execution.rs:18-42: regular files, by file stem, built-in names
\* left out.  The map gives for each name its path and the place in PATH of
\* the directory it was found in.
shell_get_external_executables(dirs) ==
    LET found == SelectSeq(flatten(dirs, 1),
                    LAMBDA f : f.entry.is_file
                               /\ file_stem(f.entry.file_name) \notin shell_BUILTINS)
    IN first_seen([i \in DOMAIN found |->
                    [name |-> file_stem(found[i].entry.file_name),
                     path |-> found[i].path,
                     place |-> found[i].place]], << >>)

PathInit ==
    /\ ShellInit
    /\ FinIdle
    /\ LexIdle
    /\ exit_status = NoExit
    /\ exec_pc = "index"
    /\ path_dirs \in PathContents
    /\ path_index = << >>
    /\ main_path = << >>
    /\ old_path = << >>
    /\ params = << >>
    /\ stdout = [kind |-> "Stdout", path |-> << >>, append |-> FALSE]
    /\ stderr = [kind |-> "Stderr", path |-> << >>, append |-> FALSE]
    /\ exec_output = [kind |-> "None"]
    /\ spawned = None
    /\ current_dir = << >>
    /\ files = << >>
    /\ term_out = << >>
    /\ term_err = << >>
    /\ io_log = << >>

\* The shell builds its PathIndex (shell/execution.rs:18-42).
GetExternalExecutables ==
    /\ exec_pc = "index"
    /\ path_index' = shell_get_external_executables(path_dirs)
    /\ exec_pc' = "main_index"
    /\ UNCHANGED <<path_dirs, main_path, old_path, params, stdout, stderr, exec_output,
                   spawned, current_dir, files, term_out, term_err, io_log,
                   exit_status, shellVars, finVars, lexVars>>

\* main.rs builds its map (main.rs:137-163): executable regular files, by
\* file name.
MainGetExternalExecutables ==
    /\ exec_pc = "main_index"
    /\ LET found == SelectSeq(flatten(path_dirs, 1),
                        LAMBDA f : f.entry.is_file /\ f.entry.mode_x)
       IN main_path' = first_seen([i \in DOMAIN found |->
                            [name |-> found[i].entry.file_name,
                             path |-> found[i].path,
                             place |-> found[i].place]], << >>)
    /\ exec_pc' = "old_index"
    /\ UNCHANGED <<path_dirs, path_index, old_path, params, stdout, stderr, exec_output,
                   spawned, current_dir, files, term_out, term_err, io_log,
                   exit_status, shellVars, finVars, lexVars>>

\* execution.rs builds its map (execution.rs:16-38): every entry, by file
\* stem, built-in names left out.
OldGetExternalExecutables ==
    /\ exec_pc = "old_index"
    /\ LET found == SelectSeq(flatten(path_dirs, 1),
                        LAMBDA f : file_stem(f.entry.file_name) \notin shell_BUILTINS)
       IN old_path' = first_seen([i \in DOMAIN found |->
                            [name |-> file_stem(found[i].entry.file_name),
                             path |-> found[i].path,
                             place |-> found[i].place]], << >>)
    /\ exec_pc' = "done"
    /\ UNCHANGED <<path_dirs, path_index, main_path, params, stdout, stderr, exec_output,
                   spawned, current_dir, files, term_out, term_err, io_log,
                   exit_status, shellVars, finVars, lexVars>>

PathNext ==
    \/ GetExternalExecutables
    \/ MainGetExternalExecutables
    \/ OldGetExternalExecutables

PathSpec == PathInit /\ [][PathNext]_vars

(***************************************************************************)
(* Value (shell/value.rs:30-151): the classified arguments of a built-in.  *)
(***************************************************************************)
\* A Value: Integer(i32), Float(f32), String, Array(Vec<Value>), Anything.
\* A Float is held as the number (-1)^neg * m / 10^k, m not a multiple of 10
\* unless k = 0.
Value(kind, val) == [kind |-> kind, val |-> val]

\* str::parse::<f32> on texts of signs, digits and dots: an optional sign,
\* then digits with at most one ".", at least one digit.  The number is
\* m / 10^k with k as small as it can be.  (The words of the model hold no
\* exponent, "inf" or "nan", and at most six digits, which an f32 holds
\* without rounding.)
parse_f32(w) ==
    LET signed == w # << >> /\ w[1] \in {"+", "-"}
        r == IF signed THEN Tail(w) ELSE w
        dots == {i \in DOMAIN r : r[i] = "."}
        digits == SelectSeq(r, LAMBDA c : c \in Digits)
        RECURSIVE normal(_, _)
        normal(m, k) ==
            IF k > 0 /\ m % 10 = 0 THEN normal(m \div 10, k - 1)
            ELSE [neg |-> w[1] = "-", m |-> m, k |-> k]
    IN
    IF \/ \E i \in DOMAIN r : r[i] \notin Digits \cup {"."}
       \/ Cardinality(dots) > 1
       \/ digits = << >>
    THEN None
    ELSE Some(normal(digits_value(digits),
                     IF dots = {} THEN 0 ELSE Len(r) - (CHOOSE i \in dots : TRUE)))

\* impl From<String> for Value (shell/value.rs:76-90)
value_from(word) ==
    IF parse_i32(word).some THEN Value("Integer", parse_i32(word).val)
    ELSE IF parse_f32(word).some THEN Value("Float", parse_f32(word).val)
    ELSE Value("String", word)

\* impl FromIterator<String> for Value (shell/value.rs:92-107)
from_iter(input) ==
    IF input = << >> THEN Value("Anything", << >>)
    ELSE IF Len(input) > 1 THEN Value("Array", [i \in DOMAIN input |-> value_from(input[i])])
    ELSE value_from(input[1])

\* Value::get (shell/value.rs:61-73) for T = Integer and T = &str, with
\* their TryFrom<&Value> (109-140); the place asked for is 0-based.
get(value, at, default, T) ==
    LET try_from(v) ==
            IF T = "Integer" /\ v.kind = "Integer" THEN Some(v.val)
            ELSE IF T = "str" /\ v.kind \in {"String", "Anything"} THEN Some(v.val)
            ELSE None
    IN
    IF value.kind = "Array" THEN
        IF at + 1 \in DOMAIN value.val /\ try_from(value.val[at + 1]).some
        THEN try_from(value.val[at + 1]).val
        ELSE default
    ELSE IF value.kind = "Anything" /\ value.val = << >> THEN default
    ELSE IF try_from(value).some THEN try_from(value).val
    ELSE default

\* Display for i32.
RECURSIVE to_string(_)
to_string(n) ==
    LET DigitChars == <<"0", "1", "2", "3", "4", "5", "6", "7", "8", "9">> IN
    IF n < 0 THEN <<"-">> \o to_string(0 - n)
    ELSE IF n < 10 THEN <<DigitChars[n + 1]>>
    ELSE to_string(n \div 10) \o <<DigitChars[(n % 10) + 1]>>

\* Display for f32: the shortest decimal that gives the number back, without
\* exponent; no "." when there is no fraction.  The digits of m, with
\* zeros in front when there are not more than k of them, and the "." in
\* front of the last k.
float_to_string(f) ==
    LET m == to_string(f.m)
        d == IF Len(m) > f.k THEN m ELSE [i \in 1..(f.k + 1 - Len(m)) |-> "0"] \o m
    IN
    (IF f.neg THEN <<"-">> ELSE << >>)
        \o SubSeq(d, 1, Len(d) - f.k)
        \o (IF f.k = 0 THEN << >> ELSE <<".">> \o SubSeq(d, Len(d) - f.k + 1, Len(d)))

\* impl fmt::Display for Value (shell/value.rs:40-58)
fmt(value) ==
    LET one(v) == IF v.kind = "Integer" THEN to_string(v.val)
                  ELSE IF v.kind = "Float" THEN float_to_string(v.val)
                  ELSE v.val
    IN
    IF value.kind = "Array"
    THEN join([i \in DOMAIN value.val |-> one(value.val[i])], <<SP>>)
    ELSE one(value)

(***************************************************************************)
(* execute (shell/execution.rs:203-304) with the directories, the files    *)
(* and the programs around it (ExecSpec).                                  *)
(***************************************************************************)
\* $HOME, the directory the shell is started in, and the directories that
\* exist.
HOME == <<"/", "h">>
StartDir == <<"/", "w">>
Directories == { <<"/">>, HOME, StartDir, StartDir \o <<"/", "d">>, StartDir \o <<"/", "7">> }

\* str::replace("~", &home)
RECURSIVE replace(_, _)
replace(s, home) ==
    IF s = << >> THEN << >>
    ELSE (IF Head(s) = "~" THEN home ELSE <<Head(s)>>) \o replace(Tail(s), home)

\* env::set_current_dir: the new working directory, or None (the path is
\* empty or names no directory).  An absolute path is itself, "." is dir,
\* ".." is the directory dir is in, anything else is looked up in dir.
set_current_dir(dir, p) ==
    LET slashes == {i \in DOMAIN dir : dir[i] = "/"}
        last == CHOOSE i \in slashes : \A j \in slashes : j <= i
        resolved ==
            IF p # << >> /\ p[1] = "/" THEN p
            ELSE IF p = <<".">> THEN dir
            ELSE IF p = <<".", ".">>
                THEN (IF last = 1 THEN <<"/">> ELSE SubSeq(dir, 1, last - 1))
            ELSE IF dir = <<"/">> THEN dir \o p
            ELSE dir \o <<"/">> \o p
    IN
    IF p # << >> /\ resolved \in Directories THEN Some(resolved) ELSE None

\* The characters of the string literals of execute (shell/execution.rs
\* 231-294) and of the two io::Errors a spawn fails with.
chars(literal) ==
    CASE literal = ": command not found\n" ->
        <<":", " ", "c", "o", "m", "m", "a", "n", "d", " ", "n", "o", "t",
          " ", "f", "o", "u", "n", "d", "\n">>
      [] literal = " is a shell builtin" ->
        <<" ", "i", "s", " ", "a", " ", "s", "h", "e", "l", "l", " ", "b",
          "u", "i", "l", "t", "i", "n">>
      [] literal = " is " ->
        <<" ", "i", "s", " ">>
      [] literal = ": not found" ->
        <<":", " ", "n", "o", "t", " ", "f", "o", "u", "n", "d">>
      [] literal = "cd: " ->
        <<"c", "d", ":", " ">>
      [] literal = ": No such file or directory" ->
        <<":", " ", "N", "o", " ", "s", "u", "c", "h", " ", "f", "i", "l",
          "e", " ", "o", "r", " ", "d", "i", "r", "e", "c", "t", "o", "r",
          "y">>
      [] literal = "Failed to spawn command '" ->
        <<"F", "a", "i", "l", "e", "d", " ", "t", "o", " ", "s", "p", "a",
          "w", "n", " ", "c", "o", "m", "m", "a", "n", "d", " ", "'">>
      [] literal = "': " ->
        <<"'", ":", " ">>
      [] literal = "Permission denied (os error 13)" ->
        <<"P", "e", "r", "m", "i", "s", "s", "i", "o", "n", " ", "d", "e",
          "n", "i", "e", "d", " ", "(", "o", "s", " ", "e", "r", "r", "o",
          "r", " ", "1", "3", ")">>
      [] literal = "No such file or directory (os error 2)" ->
        <<"N", "o", " ", "s", "u", "c", "h", " ", "f", "i", "l", "e", " ",
          "o", "r", " ", "d", "i", "r", "e", "c", "t", "o", "r", "y", " ",
          "(", "o", "s", " ", "e", "r", "r", "o", "r", " ", "2", ")">>

\* Command::new(name).spawn(): the system looks the name up in the
\* directories of PATH, in order, and runs the first regular file of that
\* name that has an execute bit.
spawn(dirs, name) ==
    LET runs(d) == \E i \in DOMAIN dirs[d].entries :
                        dirs[d].entries[i] = DirEntry(name, TRUE, TRUE)
        denied(d) == \E i \in DOMAIN dirs[d].entries :
                        dirs[d].entries[i] = DirEntry(name, TRUE, FALSE)
    IN
    IF \E d \in DOMAIN dirs : runs(d)
    THEN LET first == CHOOSE d \in DOMAIN dirs :
                        runs(d) /\ \A e \in DOMAIN dirs : runs(e) => d <= e
         IN [ok |-> TRUE, program |-> dirs[first].dir \o <<"/">> \o name, error |-> << >>]
    ELSE IF \E d \in DOMAIN dirs : denied(d)
    THEN [ok |-> FALSE, program |-> << >>, error |-> chars("Permission denied (os error 13)")]
    ELSE [ok |-> FALSE, program |-> << >>, error |-> chars("No such file or directory (os error 2)")]

\* A faulty variant of not_found: the exit code of a failure that is not
\* "command not found".
not_found_as_failure(name) ==
    [kind |-> "Builtin",
     result |-> CommandResult(CmdStderr(name \o chars(": command not found\n"), TRUE), 1)]

\* shell/execution.rs:276-280
not_found(name) ==
    [kind |-> "Builtin",
     result |-> CommandResult(CmdStderr(name \o chars(": command not found\n"), TRUE), 127)]

\* execute (shell/execution.rs:203-304): the ExecutionOutput it returns,
\* the code it ends the process with (exit), the working directory it
\* leaves, whether it converted its RWs to Stdio, and what it spawned.
execute(args, path, dir, dirs) ==
    LET name == Head(args)
        rest == Tail(args)
        value == from_iter(rest)
        builtin(output, exit_code) ==
            [kind |-> "Builtin", result |-> CommandResult(output, exit_code)]
        stay == [output |-> builtin(NoOutput, 0), exit |-> NoExit, chdir |-> dir,
                 stdio |-> FALSE, spawned |-> None]
    IN
    IF name = << >> THEN stay
    ELSE IF name = exit THEN
        [stay EXCEPT !.exit = [some |-> TRUE, val |-> get(value, 0, 0, "Integer")]]
    ELSE IF name = echo THEN
        [stay EXCEPT !.output = builtin(CmdStdout(fmt(value), FALSE), 0)]
    ELSE IF name = type THEN
        LET exe_name == get(value, 0, << >>, "str") IN
        IF exe_name \in shell_BUILTINS THEN
            [stay EXCEPT !.output =
                builtin(CmdStdout(exe_name \o chars(" is a shell builtin"), FALSE), 0)]
        ELSE IF exe_name \in DOMAIN path THEN
            [stay EXCEPT !.output =
                builtin(CmdStdout(exe_name \o chars(" is ") \o path[exe_name].path, FALSE), 0)]
        ELSE
            [stay EXCEPT !.output =
                builtin(CmdStderr(exe_name \o chars(": not found"), FALSE), 1)]
    ELSE IF name = pwd THEN
        [stay EXCEPT !.output = builtin(CmdStdout(dir, FALSE), 0)]
    ELSE IF name = cd THEN
        LET path_string == replace(get(value, 0, <<"~">>, "str"), HOME) IN
        IF set_current_dir(dir, path_string).some
        THEN [stay EXCEPT !.chdir = set_current_dir(dir, path_string).val]
        ELSE [stay EXCEPT !.output =
                builtin(CmdStderr(chars("cd: ") \o path_string \o chars(": No such file or directory"), FALSE), 1)]
    ELSE IF name \notin DOMAIN path THEN
        [stay EXCEPT !.output = not_found(name)]
    ELSE
        LET process == spawn(dirs, name) IN
        IF process.ok THEN
            [stay EXCEPT !.stdio = TRUE,
                         !.output = [kind |-> "External",
                                     child |-> [program |-> process.program,
                                                argv |-> <<name>> \o rest]],
                         !.spawned = Some([program |-> process.program,
                                           argv |-> <<name>> \o rest])]
        ELSE
            [stay EXCEPT !.stdio = TRUE,
                         !.output = builtin(CmdStderr(
                            chars("Failed to spawn command '") \o name \o chars("': ")
                                \o process.error \o <<"\n">>, TRUE), 1)]

\* RW (shell/rw.rs:10-19): Stdout, Stderr, File(path, append), ...
RW(kind, file_path, append) == [kind |-> kind, path |-> file_path, append |-> append]

\* The files before the command: f holds a line of text, g does not exist.
FileSystem ==
    [p \in {<<"f">>, <<"g">>} |->
        IF p = <<"f">> THEN Some(<<"o", "l", "d", " ", "t", "e", "x", "t", "\n">>)
        ELSE None]

\* open_file_create_dirs (shell/execution.rs:44-59): read, write, create and
\* append as asked; truncate is not set.  The file system after it: the file
\* exists, with what it held.  (A relative file name has the empty parent,
\* for which create_dir_all does nothing, so the open does not fail.)
open_file_create_dirs(fs, file_path, append) ==
    [fs EXCEPT ![file_path] = IF @.some THEN @ ELSE Some(<< >>)]

\* Write::write_all on a file just opened by open_file_create_dirs: at the
\* end of the file in append mode, else over what the file holds, from its
\* start.
write_file(content, data, append) ==
    IF append THEN content \o data
    ELSE data \o SubSeq(content, Len(data) + 1, Len(content))

\* The open of a BufWriter or a Stdio from an RW (shell/rw.rs:22-60);
\* streams holds the files and what the terminal was sent.
open_rw(streams, rw) ==
    IF rw.kind = "File"
    THEN [streams EXCEPT
            !.files = open_file_create_dirs(@, rw.path, rw.append),
            !.log = Append(@, [op |-> "open", to |-> rw, data |-> << >>])]
    ELSE streams

\* A write of data through the writer or descriptor opened from rw.
write_rw(streams, rw, data) ==
    LET logged == [streams EXCEPT
                    !.log = Append(@, [op |-> "write", to |-> rw, data |-> data])]
    IN
    IF rw.kind = "File" THEN
        [logged EXCEPT !.files[rw.path] = Some(write_file(@.val, data, rw.append))]
    ELSE IF rw.kind = "Stdout" THEN [logged EXCEPT !.term_out = @ \o data]
    ELSE IF rw.kind = "Stderr" THEN [logged EXCEPT !.term_err = @ \o data]
    ELSE streams

\* CommandResult::write_output (shell/execution.rs:101-142).  The text goes
\* into a BufWriter, which hands it to the file or the terminal when it is
\* flushed or dropped (the texts of the model are shorter than its buffer).
\* With flush each writer is flushed right after its write!.  Without, the
\* writers are dropped at the end of the match arm, the one declared last
\* first: err before out.
write_output(result, out_writer, err_writer, streams) ==
    LET text(t) == IF result.output.flush THEN t ELSE t \o <<"\n">>
        opened == open_rw(open_rw(streams, out_writer), err_writer)
    IN
    IF result.output.shape = "Stdout" THEN
        write_rw(open_rw(streams, out_writer), out_writer, text(result.output.out))
    ELSE IF result.output.shape = "Stderr" THEN
        write_rw(open_rw(streams, err_writer), err_writer, text(result.output.err))
    ELSE IF result.output.shape = "StdoutAndStderr" THEN
        IF result.output.flush
        THEN write_rw(write_rw(opened, out_writer, text(result.output.out)),
                      err_writer, text(result.output.err))
        ELSE write_rw(write_rw(opened, err_writer, text(result.output.err)),
                      out_writer, text(result.output.out))
    ELSE streams

\* The argument lists: none, one word, or two of a few words.  Words: the
\* words one argument is drawn from, every text of at most MaxWord
\* characters of a, 0, 7 and ".", and some more.
ArgLists ==
    LET Words ==
            UNION { [1..n -> {"a", "0", "7", "."}] : n \in 1..MaxWord }
                \cup { <<"~">>, <<"d">>, <<"~", "/", "d">>, <<"+", "7">>, <<"-", "0">>,
                        echo, cat, nosuch }
        PairWords == { <<"a">>, <<"7">>, <<"0", "7">>, <<"7", ".", "0">> } IN
    {<< >>} \cup { <<w>> : w \in Words }
            \cup { <<w, v>> : w \in PairWords, v \in PairWords }

\* The PATH directories execute is run with.
PathSamples ==
    { [d \in DOMAIN PathNames |-> [dir |-> PathNames[d], entries |-> ls[d]]] :
        ls \in { << <<DirEntry(cat, TRUE, TRUE)>>,
                    <<DirEntry(cat, TRUE, TRUE), DirEntry(echo, TRUE, TRUE)>> >>,
                 << <<DirEntry(cat \o <<".", "s", "h">>, TRUE, TRUE)>>,
                    <<DirEntry(cat, TRUE, TRUE)>> >>,
                 << <<DirEntry(cat, TRUE, FALSE)>>, << >> >>,
                 << <<DirEntry(cat \o <<".", "s", "h">>, TRUE, TRUE)>>, << >> >>,
                 << << >>, << >> >> } }

\* The stdout and stderr the command is given.
RwSamples ==
    { <<RW("Stdout", << >>, FALSE), RW("Stderr", << >>, FALSE)>>,
      <<RW("File", <<"f">>, FALSE), RW("Stderr", << >>, FALSE)>>,
      <<RW("File", <<"f">>, TRUE), RW("Stderr", << >>, FALSE)>>,
      <<RW("File", <<"g">>, FALSE), RW("Stderr", << >>, FALSE)>>,
      <<RW("Stdout", << >>, FALSE), RW("File", <<"f">>, FALSE)>>,
      <<RW("Stdout", << >>, FALSE), RW("File", <<"f">>, TRUE)>> }

\* What a spawned program writes to its stdout.
ChildOutput == <<"o", "\n">>

\* The shell has built its PathIndex and is about to call execute.  The
\* command names are the built-ins, a name that is in PATH, one that is not,
\* and the empty name.
ExecInit ==
    /\ ShellInit
    /\ FinIdle
    /\ LexIdle
    /\ exit_status = NoExit
    /\ exec_pc = "execute"
    /\ path_dirs \in PathSamples
    /\ path_index = shell_get_external_executables(path_dirs)
    /\ main_path = << >>
    /\ old_path = << >>
    /\ \E name \in shell_BUILTINS \cup {cat, nosuch, << >>}, args \in ArgLists : params = <<name>> \o args
    /\ \E rw \in RwSamples : stdout = rw[1] /\ stderr = rw[2]
    /\ exec_output = [kind |-> "None"]
    /\ spawned = None
    /\ current_dir = StartDir
    /\ files = FileSystem
    /\ term_out = << >>
    /\ term_err = << >>
    /\ io_log = << >>

\* execute is called (shell/execution.rs:203-304).  For an external command
\* the RWs are made into the Stdio of the child first, which opens their
\* files.
Execute ==
    /\ exec_pc = "execute"
    /\ LET r == execute(params, path_index, current_dir, path_dirs)
           streams == [files |-> files, term_out |-> term_out, term_err |-> term_err,
                       log |-> io_log]
       IN
        /\ exec_output' = r.output
        /\ exit_status' = r.exit
        /\ current_dir' = r.chdir
        /\ spawned' = r.spawned
        /\ files' = IF r.stdio
                    THEN open_rw(open_rw(streams, stdout), stderr).files
                    ELSE files
        /\ io_log' = IF r.stdio
                     THEN open_rw(open_rw(streams, stdout), stderr).log
                     ELSE io_log
        /\ exec_pc' = IF r.exit.some THEN "done"
                      ELSE IF r.output.kind = "External" THEN "child"
                      ELSE "write"
    /\ UNCHANGED <<path_dirs, path_index, main_path, old_path, params, stdout, stderr,
                   term_out, term_err, shellVars, finVars, lexVars>>

\* The spawned program writes its output to the stdout it was given and
\* ends.
ChildRun ==
    /\ exec_pc = "child"
    /\ LET streams == [files |-> files, term_out |-> term_out, term_err |-> term_err,
                       log |-> io_log]
           after == write_rw(streams, stdout, ChildOutput)
       IN
        /\ files' = after.files
        /\ term_out' = after.term_out
        /\ term_err' = after.term_err
        /\ io_log' = after.log
    /\ exec_pc' = "done"
    /\ UNCHANGED <<path_dirs, path_index, main_path, old_path, params, stdout, stderr,
                   exec_output, spawned, current_dir, exit_status,
                   shellVars, finVars, lexVars>>

\* The result of a built-in is written: write_output with the stdout and
\* stderr of the command (shell/execution.rs:101-142).
WriteOutput ==
    /\ exec_pc = "write"
    /\ LET streams == [files |-> files, term_out |-> term_out, term_err |-> term_err,
                       log |-> io_log]
           after == write_output(exec_output.result, stdout, stderr, streams)
       IN
        /\ files' = after.files
        /\ term_out' = after.term_out
        /\ term_err' = after.term_err
        /\ io_log' = after.log
    /\ exec_pc' = "done"
    /\ UNCHANGED <<path_dirs, path_index, main_path, old_path, params, stdout, stderr,
                   exec_output, spawned, current_dir, exit_status,
                   shellVars, finVars, lexVars>>

ExecNext == Execute \/ ChildRun \/ WriteOutput

ExecSpec == ExecInit /\ [][ExecNext]_vars

(***************************************************************************)
(* write_output on its own (WriteSpec): the result of a command, of every  *)
(* shape, written to the stdout and stderr of the command.                 *)
(***************************************************************************)
\* The CommandOutputs write_output is given: of every shape, with texts
\* with and without a newline at their end, to flush and not.
OutputSample(shape, o, e, flush) ==
    CASE shape = "Stdout" -> CmdStdout(o, flush)
      [] shape = "Stderr" -> CmdStderr(e, flush)
      [] shape = "StdoutAndStderr" -> StdoutAndStderr(o, e, flush)
      [] shape = "NoOutput" -> NoOutput

\* A command has ended with a result that is about to be written.
WriteInit ==
    /\ ShellInit
    /\ FinIdle
    /\ LexIdle
    /\ exit_status = NoExit
    /\ exec_pc = "write"
    /\ path_dirs = << >>
    /\ path_index = << >>
    /\ main_path = << >>
    /\ old_path = << >>
    /\ params = << >>
    /\ \E rw \in RwSamples \cup { <<RW("File", <<"f">>, TRUE), RW("File", <<"f">>, TRUE)>> } :
            stdout = rw[1] /\ stderr = rw[2]
    /\ \E shape \in {"Stdout", "Stderr", "StdoutAndStderr", "NoOutput"},
          o \in { <<"a">>, <<"b", "\n">> }, e \in { <<"a">>, <<"b", "\n">> },
          flush \in BOOLEAN, exit_code \in {0, 1} :
            exec_output = Builtin(CommandResult(OutputSample(shape, o, e, flush), exit_code))
    /\ spawned = None
    /\ current_dir = StartDir
    /\ files = FileSystem
    /\ term_out = << >>
    /\ term_err = << >>
    /\ io_log = << >>

WriteNext == WriteOutput

WriteSpec == WriteInit /\ [][WriteNext]_vars

(***************************************************************************)
(* CommandResult::send_output of execution.rs (SendSpec).  stdout and      *)
(* stderr hold its arguments: a File for Some(path) and the terminal for   *)
(* None, with append_output and append_error.                              *)
(***************************************************************************)
\* execution.rs:88-190.  Every writer lives in a block of its own and is
\* dropped at the end of it, so its text is handed on before the next
\* writer is made.  expect(..) on the open: a relative file name opens.
send_output(result, output_path, error_path, append_output, append_error, streams) ==
    LET text(t) == IF result.output.flush THEN t ELSE t \o <<"\n">>
        send(s, file_path, append, terminal, t) ==
            LET rw == IF file_path.some THEN RW("File", file_path.val, append)
                      ELSE RW(terminal, << >>, FALSE)
            IN write_rw(open_rw(s, rw), rw, text(t))
    IN
    IF result.output.shape = "Stdout" THEN
        send(streams, output_path, append_output, "Stdout", result.output.out)
    ELSE IF result.output.shape = "Stderr" THEN
        send(streams, error_path, append_output, "Stderr", result.output.err)
    ELSE IF result.output.shape = "StdoutAndStderr" THEN
        send(send(streams, output_path, append_output, "Stdout", result.output.out),
             error_path, append_error, "Stderr", result.output.err)
    ELSE streams

\* A command has ended with a result that is about to be sent.
SendInit ==
    /\ ShellInit
    /\ FinIdle
    /\ LexIdle
    /\ exit_status = NoExit
    /\ exec_pc = "send"
    /\ path_dirs = << >>
    /\ path_index = << >>
    /\ main_path = << >>
    /\ old_path = << >>
    /\ params = << >>
    /\ \E output_path \in {None, Some(<<"f">>)}, append_output \in BOOLEAN :
            stdout = RW(IF output_path.some THEN "File" ELSE "Stdout",
                        output_path.val, append_output)
    /\ \E error_path \in {None, Some(<<"f">>), Some(<<"g">>)}, append_error \in BOOLEAN :
            stderr = RW(IF error_path.some THEN "File" ELSE "Stderr",
                        error_path.val, append_error)
    /\ \E shape \in {"Stdout", "Stderr", "StdoutAndStderr", "NoOutput"},
          flush \in BOOLEAN :
            exec_output = Builtin(CommandResult(
                            OutputSample(shape, <<"a">>, <<"b", "\n">>, flush), 0))
    /\ spawned = None
    /\ current_dir = StartDir
    /\ files = FileSystem
    /\ term_out = << >>
    /\ term_err = << >>
    /\ io_log = << >>

\* send_output is called with the result and the redirections of the
\* command.
SendOutput ==
    /\ exec_pc = "send"
    /\ LET streams == [files |-> files, term_out |-> term_out, term_err |-> term_err,
                       log |-> io_log]
           after == send_output(exec_output.result,
                        IF stdout.kind = "File" THEN Some(stdout.path) ELSE None,
                        IF stderr.kind = "File" THEN Some(stderr.path) ELSE None,
                        stdout.append, stderr.append, streams)
       IN
        /\ files' = after.files
        /\ term_out' = after.term_out
        /\ term_err' = after.term_err
        /\ io_log' = after.log
    /\ exec_pc' = "done"
    /\ UNCHANGED <<path_dirs, path_index, main_path, old_path, params, stdout, stderr,
                   exec_output, spawned, current_dir, exit_status,
                   shellVars, finVars, lexVars>>

SendNext == SendOutput

SendSpec == SendInit /\ [][SendNext]_vars

(***************************************************************************)
(* Properties of handle and main (Spec, LiveSpec).                         *)
(***************************************************************************)
StdoutOps == {<<">">>, <<"1", ">">>, <<">", ">">>, <<"1", ">", ">">>}
StderrOps == {<<"2", ">">>, <<"2", ">", ">">>}

\* The words of a stage after its command hold one of the operators.
HasOperator(input, ops) ==
    LET parsed == parse_args(input) IN
    \E i \in 2..Len(parsed) : parsed[i] \in ops

NoStdoutRedirection == \A i \in DOMAIN inputs : ~HasOperator(inputs[i], StdoutOps)
NoRedirection ==
    \A i \in DOMAIN inputs : ~HasOperator(inputs[i], StdoutOps \cup StderrOps)

\* Every stage of the line has been dispatched.
AllDispatched == pc \in {"join", "wait"}

\* handle is over: it returned (Ok to the prompt, or an Err that ends main),
\* or the process ended (a panic, process::exit).
HandleOver == pc = "prompt" \/ shell # "running"

\* C1: in a pipeline in which no stage has a stdout redirection, stage 0
\* reads the shell's stdin, stage i writes the write end and stage i+1 reads
\* the read end of the same pipe i, and the last stage writes the shell's
\* stdout; the ends are held by the stages they were bound to.
C1_PipelineWiring ==
    NoStdoutRedirection =>
        \A k \in DOMAIN stages :
            /\ stages[k].input = IF k = 1 THEN Stdin ELSE PipeReader(k - 2)
            /\ stages[k].output =
                    IF k = Len(inputs) THEN Stdout ELSE PipeWriter(k - 1)
            /\ k > 1 /\ shell = "running" =>
                    pipes[k - 1].rd \in {stages[k].outcome, "closed"}
            /\ k < Len(inputs) /\ shell = "running" =>
                    pipes[k].wr \in {stages[k].outcome, "closed"}

C1_Witness ==
    /\ NoStdoutRedirection
    /\ AllDispatched
    /\ Len(stages) = 3
    /\ stages[2].outcome = "child" /\ child[2] = "running"
    /\ pipes[1].rd = "child" /\ pipes[2].wr = "child"

\* C2 (as claimed): once every stage is dispatched and a non-terminal stage
\* has its stdout in a file, the next stage reads a pipe no data was written
\* to and handle is never stuck: it is over, or main, a thread or a child
\* whose stdin is at end-of-file can move on, or a child still reads a
\* terminal the user has not ended.
MidRedirect ==
    \E k \in DOMAIN stages : k < Len(inputs) /\ stages[k].output.kind = "File"

Progress ==
    \/ Join \/ Wait \/ Return
    \/ \E k \in Stage : ThreadRun(k)
    \/ \E k \in Stage : StdinEof(k) /\ ChildExit(k)

C2_RedirectedStageThenEof ==
    (AllDispatched /\ MidRedirect) =>
        /\ \A k \in DOMAIN stages :
                (k < Len(inputs) /\ stages[k].output.kind = "File"
                    /\ k + 1 \in DOMAIN stages)
                => /\ stages[k + 1].input = PipeReader(k - 1)
                   /\ pipes[k].data = 0
        /\ (HandleOver \/ ENABLED Progress
            \/ \E k \in DOMAIN child :
                    child[k] = "running" /\ stages[k].input.kind = "Stdin" /\ ~termEof)

\* C3 (as claimed): every reader slot and every writer slot the pipe loop
\* made has been taken once all stages are dispatched.
C3_EverySlotTakenOnce ==
    AllDispatched =>
        /\ \A p \in DOMAIN pipe_readers : pipe_readers[p] = "None"
        /\ \A p \in DOMAIN pipe_writers : pipe_writers[p] = "None"

\* C4: in a pipeline without redirections, once all stages are dispatched
\* the parent holds no pipe end (a command not found or not spawned has
\* dropped them, a built-in thread holds them only while it runs), and when
\* no child is left reading a terminal that has not ended, handle gets to
\* its end.
C4_NoParentEnds ==
    (AllDispatched /\ NoRedirection /\ shell = "running") =>
        \A p \in DOMAIN pipes :
            /\ pipes[p].rd # "slot" /\ pipes[p].wr # "slot"
            /\ pipes[p].rd = "thread" => thread[p + 1] = "running"
            /\ pipes[p].wr = "thread" => thread[p] = "running"
            /\ pipes[p].rd = "child" => child[p + 1] = "running"
            /\ pipes[p].wr = "child" => child[p] = "running"
            /\ stages[p].outcome \in {"notfound", "spawnfail"} => pipes[p].wr = "closed"
            /\ stages[p + 1].outcome \in {"notfound", "spawnfail"}
                    => pipes[p].rd = "closed"

TerminalEnded ==
    \A k \in DOMAIN child :
        (child[k] = "running" /\ stages[k].input.kind = "Stdin") => termEof

C4_HandleReturns ==
    /\ []C4_NoParentEnds
    /\ (AllDispatched /\ NoRedirection /\ TerminalEnded) ~> HandleOver

C4_Witness ==
    /\ AllDispatched /\ NoRedirection /\ shell = "running"
    /\ Len(stages) = 3
    /\ stages[1].outcome = "thread" /\ thread[1] = "ok"
    /\ stages[2].outcome = "notfound"
    /\ stages[3].outcome = "child" /\ child[3] = "running"
    /\ pipes[2].wr = "closed" /\ pipes[2].rd = "child"

\* C5 (as claimed): the error of a stage never ends handle with an Err, which
\* would end main and the shell with it.
C5_StageErrorsDoNotAbort == shell # "failed"

\* C8 (as claimed): on an empty or blank line no stage is dispatched and the
\* shell goes on.
C8_BlankLineRunsNothing ==
    (pc # "prompt" /\ trim(line) = << >>) => (shell = "running" /\ stages = << >>)

\* C9 (as claimed): the line is split into stages at the words that are
\* exactly "|" and nowhere else.
PipeWords(l) ==
    LET words == parse_args(l) IN
    Cardinality({i \in 1..Len(words) : words[i] = <<PIPE>>})

C9_SplitAtPipeWordsOnly ==
    pc # "prompt" => Len(inputs) = PipeWords(line) + 1

\* C10 (as claimed): when the last word of the line is "|", no stage of the
\* line is dispatched and the shell goes on.
TrailingPipe(l) ==
    LET words == parse_args(l) IN
    words # << >> /\ words[Len(words)] = <<PIPE>>

C10_TrailingPipeRunsNothing ==
    (pc # "prompt" /\ TrailingPipe(line)) => (shell = "running" /\ stages = << >>)

\* The words of a stage after its command.
StageWords(input) ==
    LET parsed == parse_args(input) IN
    IF parsed = << >> THEN << >> ELSE Tail(parsed)

AppendOps == {<<">", ">">>, <<"1", ">", ">">>, <<"2", ">", ">">>}

\* The last word of the stage is a redirection operator.
DanglingOperator(input) ==
    LET words == StageWords(input) IN
    words # << >> /\ words[Len(words)] \in StdoutOps \cup StderrOps

\* C11 (as claimed): a stage whose last word is a redirection operator runs
\* no command, and the shell is still running once handle has come to it.
C11_DanglingOperatorRunsNothing ==
    \A k \in DOMAIN inputs :
        DanglingOperator(inputs[k]) =>
            /\ k \notin DOMAIN stages
            /\ index = k - 1 => shell = "running"

\* The place of the last operator of ops that has a target word, 0 if none.
LastOperator(words, ops) ==
    LET at == {i \in 1..(Len(words) - 1) : words[i] \in ops} IN
    IF at = {} THEN 0 ELSE CHOOSE i \in at : \A j \in at : j <= i

\* The words left when every operator and its target word are taken out.
RECURSIVE StripRedirections(_)
StripRedirections(words) ==
    IF words = << >> THEN << >>
    ELSE IF Head(words) \in StdoutOps \cup StderrOps /\ Len(words) >= 2
        THEN StripRedirections(Tail(Tail(words)))
    ELSE <<Head(words)>> \o StripRedirections(Tail(words))

\* C12 (as claimed): the stdout and the stderr of a dispatched stage are
\* bound to the target of the last operator of their stream, in that
\* operator's mode, and the command gets the words without any operator or
\* target.
C12_LastRedirectionWins ==
    \A k \in DOMAIN stages :
        LET words == StageWords(inputs[k])
            o == LastOperator(words, StdoutOps)
            e == LastOperator(words, StderrOps)
        IN
        /\ o > 0 => stages[k].output = File(words[o + 1], words[o] \in AppendOps)
        /\ e > 0 => stages[k].error = File(words[e + 1], words[e] \in AppendOps)
        /\ stages[k].args = StripRedirections(words)

\* C13: when handle is past its pipe loop it has created one pipe less than
\* the line has stages, and never more before.
C13_OnePipeLessThanStages ==
    /\ pc # "prompt" => Len(pipes) <= Len(inputs) - 1
    /\ pc \in {"dispatch", "join", "wait"} => Len(pipes) = Len(inputs) - 1

C13_Witness ==
    /\ pc = "dispatch" /\ shell = "running"
    /\ Len(inputs) = 3
    /\ Len(pipes) = 2

\* Where the walk of the lexer is at the end of the text: the quote it is
\* in, and whether the last character is a backslash that is still to act.
\* A backslash takes the character after it with it, in and out of quotes.
RECURSIVE QuoteWalk(_, _, _)
QuoteWalk(s, i, q) ==
    IF i > Len(s) THEN [in_quote |-> q, pending |-> FALSE]
    ELSE IF s[i] = BS THEN
        IF i = Len(s) THEN [in_quote |-> q, pending |-> TRUE]
        ELSE QuoteWalk(s, i + 2, q)
    ELSE IF q = "None" /\ s[i] = SQ THEN QuoteWalk(s, i + 1, "Single")
    ELSE IF q = "None" /\ s[i] = DQ THEN QuoteWalk(s, i + 1, "Double")
    ELSE IF q = "Single" /\ s[i] = SQ THEN QuoteWalk(s, i + 1, "None")
    ELSE IF q = "Double" /\ s[i] = DQ THEN QuoteWalk(s, i + 1, "None")
    ELSE QuoteWalk(s, i + 1, q)

EndsInQuote(s) == QuoteWalk(s, 1, "None").in_quote # "None"
EndsInEscape(s) ==
    LET end == QuoteWalk(s, 1, "None") IN end.in_quote = "None" /\ end.pending

\* C16 (as claimed): a line that ends inside a quote or with a lone
\* backslash dispatches no stage and the shell goes on.
C16_UnclosedLineRunsNothing ==
    (pc # "prompt" /\ (EndsInQuote(line) \/ EndsInEscape(line)))
        => (shell = "running" /\ stages = << >>)

(***************************************************************************)
(* Properties of tokenize and process_string (LexSpec).                    *)
(***************************************************************************)
LexDone == lex_pc = "done"

\* C14: a text that ends outside quotes and not on a backslash that takes
\* nothing is tokenized without error.
C14_BalancedTextLexes ==
    (LexDone /\ ~EndsInQuote(lex_input) /\ ~QuoteWalk(lex_input, 1, "None").pending)
        => tokenized.ok

C14_Witness ==
    /\ LexDone
    /\ lex_input = <<BS, SQ, DQ, DQ>>
    /\ tokenized.ok

\* C15 (as claimed): tokenize gives UnclosedQuote exactly for the texts that
\* end inside a quote, a backslash at the end of them included, and
\* TrailingEscape exactly for those that end on a backslash outside quotes.
C15_LexErrorsExact ==
    LexDone =>
        /\ tokenized = Err(UnclosedQuote) <=> EndsInQuote(lex_input)
        /\ tokenized = Err(TrailingEscape) <=> EndsInEscape(lex_input)

\* b is the inside of a region quoted by q: a backslash takes the character
\* after it, and no other q is in it.
RECURSIVE ClosedBody(_, _, _)
ClosedBody(b, i, q) ==
    IF i > Len(b) THEN TRUE
    ELSE IF b[i] = BS THEN i < Len(b) /\ ClosedBody(b, i + 2, q)
    ELSE b[i] # q /\ ClosedBody(b, i + 1, q)

Body(s) == SubSeq(s, 2, Len(s) - 1)

\* The text is one region quoted by q.
QuotedRegion(s, q) ==
    /\ Len(s) >= 2
    /\ s[1] = q /\ s[Len(s)] = q
    /\ ClosedBody(Body(s), 1, q)

\* C17: a single-quoted region is the one word made of its inside, character
\* for character, backslashes and what follows them included, for
\* process_string and for tokenize.
C17_SingleQuotesLiteral ==
    (LexDone /\ QuotedRegion(lex_input, SQ)) =>
        /\ processed = Ok(Body(lex_input))
        /\ tokenized = Ok(<<Body(lex_input)>>)

C17_Witness ==
    /\ LexDone
    /\ lex_input = <<SQ, BS, SQ, SQ>>
    /\ processed = Ok(<<BS, SQ>>)
    /\ tokenized = Ok(<< <<BS, SQ>> >>)

\* One pass over the inside of a double-quoted region: \" gives ", \\ gives
\* one backslash, any other backslash stays with the character after it.
RECURSIVE EscapeOnce(_, _)
EscapeOnce(b, i) ==
    IF i > Len(b) THEN << >>
    ELSE IF b[i] = BS /\ i < Len(b) THEN
        IF b[i + 1] \in {DQ, BS} THEN <<b[i + 1]>> \o EscapeOnce(b, i + 2)
        ELSE <<BS, b[i + 1]>> \o EscapeOnce(b, i + 2)
    ELSE <<b[i]>> \o EscapeOnce(b, i + 1)

\* C18 (as claimed): process_string turns a double-quoted region into its
\* inside with the escapes \" and \\ applied in one pass.
C18_DoubleQuoteEscapesOnce ==
    (LexDone /\ QuotedRegion(lex_input, DQ)) =>
        processed = Ok(EscapeOnce(Body(lex_input), 1))

\* No quote character of the text opens a quote: each follows a backslash.
RECURSIVE NoBareQuote(_, _)
NoBareQuote(s, i) ==
    IF i > Len(s) THEN TRUE
    ELSE IF s[i] = BS THEN NoBareQuote(s, i + 2)
    ELSE s[i] \notin {SQ, DQ} /\ NoBareQuote(s, i + 1)

\* The text without its backslashes, each character after one kept.
RECURSIVE Unescaped(_, _)
Unescaped(s, i) ==
    IF i > Len(s) THEN << >>
    ELSE IF s[i] = BS /\ i < Len(s) THEN <<s[i + 1]>> \o Unescaped(s, i + 2)
    ELSE <<s[i]>> \o Unescaped(s, i + 1)

\* The words of a text without quotes: whitespace that follows no backslash
\* ends the word, a backslash gives the character after it to the word.
RECURSIVE EscapedWords(_, _, _, _)
EscapedWords(s, i, cur, acc) ==
    IF i > Len(s) THEN (IF cur.some THEN Append(acc, cur.val) ELSE acc)
    ELSE IF s[i] = BS /\ i < Len(s) THEN
        EscapedWords(s, i + 2, Some(cur.val \o <<s[i + 1]>>), acc)
    ELSE IF s[i] \in {SP, "\t"} THEN
        EscapedWords(s, i + 1, None, IF cur.some THEN Append(acc, cur.val) ELSE acc)
    ELSE EscapedWords(s, i + 1, Some(Append(cur.val, s[i])), acc)

\* C19: outside quotes a backslash goes away and the character after it is
\* taken as it is, whatever it is; a space after a backslash stays in the
\* word.
C19_BackslashOutsideQuotes ==
    (LexDone /\ NoBareQuote(lex_input, 1)
             /\ ~QuoteWalk(lex_input, 1, "None").pending) =>
        /\ processed = Ok(Unescaped(lex_input, 1))
        /\ tokenized = Ok(EscapedWords(lex_input, 1, None, << >>))

C19_Witness ==
    /\ LexDone
    /\ lex_input = <<"a", BS, SP, "a">>
    /\ tokenized = Ok(<< <<"a", SP, "a">> >>)

\* The words of a text without backslashes: whitespace outside quotes ends
\* the word, a quote character opens or closes a region and is not in the
\* word, anything else is.
RECURSIVE QuotedWords(_, _, _, _, _)
QuotedWords(s, i, q, cur, acc) ==
    IF i > Len(s) THEN (IF cur.some THEN Append(acc, cur.val) ELSE acc)
    ELSE IF q = "" /\ s[i] \in {SP, "\t"} THEN
        QuotedWords(s, i + 1, q, None, IF cur.some THEN Append(acc, cur.val) ELSE acc)
    ELSE IF q = "" /\ s[i] \in {SQ, DQ} THEN
        QuotedWords(s, i + 1, s[i], Some(cur.val), acc)
    ELSE IF q = s[i] THEN QuotedWords(s, i + 1, "", cur, acc)
    ELSE QuotedWords(s, i + 1, q, Some(Append(cur.val, s[i])), acc)

NoBackslash(s) == \A i \in DOMAIN s : s[i] # BS

\* C20: words end only at spaces and tabs outside quotes, a run of them ends
\* one word, whitespace in quotes stays in the word, and quoted and unquoted
\* parts that touch are one word.
C20_WordsSplitAtBareWhitespace ==
    (LexDone /\ NoBackslash(lex_input) /\ ~EndsInQuote(lex_input)) =>
        tokenized = Ok(QuotedWords(lex_input, 1, "", None, << >>))

C20_Witness ==
    /\ LexDone
    /\ lex_input = <<"a", SQ, SP, SQ>>
    /\ tokenized = Ok(<< <<"a", SP>> >>)

\* A word of the claim: not empty (the lexer gives no empty word for an empty
\* text), and without whitespace, quote, backslash or ">".
PlainWord(w) ==
    /\ w # << >>
    /\ \A i \in DOMAIN w : w[i] \notin {SP, "\t", SQ, DQ, BS, ">"}

\* C21: the text of a plain word is tokenized to that one word.
C21_PlainWordLexesToItself ==
    (LexDone /\ PlainWord(lex_input)) => tokenized = Ok(<<lex_input>>)

C21_Witness ==
    /\ LexDone
    /\ lex_input = <<"a", "a", "a">>
    /\ tokenized = Ok(<< <<"a", "a", "a">> >>)

(***************************************************************************)
(* Properties of finalize_executions (FinSpec).                            *)
(***************************************************************************)
Externals == {i \in DOMAIN execs : execs[i].kind = "External"}
NoWaitFails == \A i \in Externals : execs[i].wait_ok
Increasing(s) == \A i, j \in DOMAIN s : i < j => s[i] < s[j]
Range(s) == {s[i] : i \in DOMAIN s}

\* C6 (as claimed): after a wait on a handle before the last one has failed,
\* every External handle after it is still waited on.
C6_WaitErrorDoesNotStopWaiting ==
    fin_pc = "done" =>
        \A i \in Externals :
            (i < Len(execs) /\ ~execs[i].wait_ok /\ i \in Range(waited))
            => \A j \in Externals : j > i => j \in Range(waited)

\* C7: when no wait fails, the result is the last handle's (a Builtin's
\* result as it is, an External's output and exit code, 0 when there is
\* none) and every External was waited on, in list order; the empty list
\* gives NoOutput and 0.
C7_LastResult ==
    (fin_pc = "done" /\ NoWaitFails) =>
        /\ execs = << >> => fin_result = [output |-> NoOutput, exit_code |-> 0]
        /\ execs # << >> =>
            LET last == execs[Len(execs)] IN
            /\ last.kind = "Builtin" => fin_result = last.result
            /\ last.kind = "External" =>
                /\ fin_result.output =
                    [shape |-> "StdoutAndStderr", out |-> last.out,
                     err |-> last.err, flush |-> TRUE]
                /\ fin_result.exit_code = IF last.code.some THEN last.code.val ELSE 0
        /\ Range(waited) = Externals
        /\ Increasing(waited)

C7_Witness ==
    /\ fin_pc = "done" /\ NoWaitFails
    /\ Len(execs) = 3
    /\ execs[1].kind = "External" /\ execs[2].kind = "Builtin"
    /\ execs[3].kind = "External" /\ ~execs[3].code.some
    /\ waited = <<1, 3>>

(***************************************************************************)
(* Properties of get_external_executables (PathSpec).                      *)
(***************************************************************************)
\* The places in PATH of the directories that hold a regular file of stem k.
FilePlaces(k) ==
    {d \in DOMAIN path_dirs :
        \E i \in DOMAIN path_dirs[d].entries :
            /\ path_dirs[d].entries[i].is_file
            /\ file_stem(path_dirs[d].entries[i].file_name) = k}

\* ... an executable regular file of name k.
ExecutablePlaces(k) ==
    {d \in DOMAIN path_dirs :
        \E i \in DOMAIN path_dirs[d].entries :
            /\ path_dirs[d].entries[i].is_file
            /\ path_dirs[d].entries[i].mode_x
            /\ path_dirs[d].entries[i].file_name = k}

\* ... an entry of stem k.
EntryPlaces(k) ==
    {d \in DOMAIN path_dirs :
        \E i \in DOMAIN path_dirs[d].entries :
            file_stem(path_dirs[d].entries[i].file_name) = k}

Earliest(places) == CHOOSE d \in places : \A e \in places : d <= e

\* The path is of a file in the directory at place d of PATH.
InDirectory(file_path, d) ==
    \E i \in DOMAIN path_dirs[d].entries :
        file_path = path_dirs[d].dir \o <<"/">> \o path_dirs[d].entries[i].file_name

\* C28: each of the three maps stores, for a name found in several
\* directories of PATH, the path from the earliest of them.
C28_FirstSeenWins ==
    exec_pc = "done" =>
        /\ \A k \in DOMAIN path_index :
            /\ path_index[k].place = Earliest(FilePlaces(k))
            /\ InDirectory(path_index[k].path, Earliest(FilePlaces(k)))
        /\ \A k \in DOMAIN main_path :
            /\ main_path[k].place = Earliest(ExecutablePlaces(k))
            /\ InDirectory(main_path[k].path, Earliest(ExecutablePlaces(k)))
        /\ \A k \in DOMAIN old_path :
            /\ old_path[k].place = Earliest(EntryPlaces(k))
            /\ InDirectory(old_path[k].path, Earliest(EntryPlaces(k)))

C28_Witness ==
    /\ exec_pc = "done"
    /\ FilePlaces(cat) = {1, 2}
    /\ ExecutablePlaces(cat) = {1, 2}
    /\ path_index[cat].path = <<"/", "x", "/">> \o cat
    /\ main_path[cat].path = <<"/", "x", "/">> \o cat
    /\ old_path[cat].path = <<"/", "x", "/">> \o cat

\* C29 (as claimed): no key of the map main.rs's get_external_executables
\* returns is the name of a built-in, whatever the PATH directories hold.
C29_BuiltinsAndKeysDisjoint ==
    exec_pc = "done" => DOMAIN main_path \cap BUILTINS = {}

(***************************************************************************)
(* Properties of execute and write_output (ExecSpec).                      *)
(***************************************************************************)
\* execute has returned (or ended the process).
Executed == exec_pc \in {"child", "write", "done"} /\ params # << >>
\* ... and what it returned has been written.
Finished == exec_pc = "done" /\ params # << >>

ResultOf(out) == out.result.output
CodeOf(out) == out.result.exit_code

\* C22 (as claimed): echo gives its argument words, as they are, joined by
\* single spaces, with exit code 0, and a stdout that is the terminal gets
\* that text and one newline.
C22_EchoPrintsWordsVerbatim ==
    (Finished /\ Head(params) = echo) =>
        /\ exec_output.kind = "Builtin"
        /\ CodeOf(exec_output) = 0
        /\ ResultOf(exec_output).shape = "Stdout"
        /\ ResultOf(exec_output).out = join(Tail(params), <<SP>>)
        /\ stdout.kind = "Stdout" => term_out = join(Tail(params), <<SP>>) \o <<"\n">>

\* C23 (as claimed): `type n` says "n is a shell builtin" (exit code 0) for
\* a built-in, "n is <path>" (0) for a key of the PathIndex, and else
\* "n: not found" on stderr (1), with the word n as it was given.
C23_TypeReportsWordAsTyped ==
    (Finished /\ Len(params) = 2 /\ Head(params) = type) =>
        LET n == params[2] IN
        /\ exec_output.kind = "Builtin"
        /\ IF n \in shell_BUILTINS THEN
                /\ ResultOf(exec_output).shape = "Stdout"
                /\ ResultOf(exec_output).out = n \o chars(" is a shell builtin")
                /\ CodeOf(exec_output) = 0
           ELSE IF n \in DOMAIN path_index THEN
                /\ ResultOf(exec_output).shape = "Stdout"
                /\ ResultOf(exec_output).out = n \o chars(" is ") \o path_index[n].path
                /\ CodeOf(exec_output) = 0
           ELSE
                /\ ResultOf(exec_output).shape = "Stderr"
                /\ ResultOf(exec_output).err = n \o chars(": not found")
                /\ CodeOf(exec_output) = 1

\* C24 (as claimed): `cd p` makes the directory p names (with ~ for $HOME)
\* the working directory, exit code 0; when there is no such directory the
\* working directory stays, stderr gets "cd: p: No such file or directory"
\* and the exit code is 1; cd alone goes to $HOME.
C24_CdChangesDirectoryOrReports ==
    (Finished /\ Len(params) <= 2 /\ Head(params) = cd) =>
        /\ exec_output.kind = "Builtin"
        /\ IF Len(params) = 1 THEN
                current_dir = HOME /\ CodeOf(exec_output) = 0
           ELSE IF set_current_dir(StartDir, replace(params[2], HOME)).some THEN
                /\ current_dir = set_current_dir(StartDir, replace(params[2], HOME)).val
                /\ CodeOf(exec_output) = 0
           ELSE
                /\ current_dir = StartDir
                /\ ResultOf(exec_output).shape = "Stderr"
                /\ ResultOf(exec_output).err
                        = chars("cd: ") \o params[2] \o chars(": No such file or directory")
                /\ CodeOf(exec_output) = 1

C27_SpawnsIndexedProgram ==
    (/\ Executed
     /\ Head(params) \notin shell_BUILTINS
     /\ Head(params) \in DOMAIN path_index) =>
        /\ spawned.some
        /\ spawned.val.program = path_index[Head(params)].path
        /\ spawned.val.argv = params

\* What the command wrote to its stdout and to its stderr.
StdoutText ==
    IF exec_output.kind = "External" THEN Some(ChildOutput)
    ELSE IF exec_output.kind = "Builtin"
            /\ ResultOf(exec_output).shape \in {"Stdout", "StdoutAndStderr"}
        THEN Some(ResultOf(exec_output).out
                    \o (IF ResultOf(exec_output).flush THEN << >> ELSE <<"\n">>))
    ELSE None

StderrText ==
    IF exec_output.kind = "Builtin"
        /\ ResultOf(exec_output).shape \in {"Stderr", "StdoutAndStderr"}
    THEN Some(ResultOf(exec_output).err
                \o (IF ResultOf(exec_output).flush THEN << >> ELSE <<"\n">>))
    ELSE None

Before(file_path) ==
    IF FileSystem[file_path].some THEN FileSystem[file_path].val ELSE << >>

\* C30 (as claimed): once the command is over, a file its stdout or stderr
\* was redirected to holds what the command wrote there and nothing else,
\* or, in append mode, what it held before and then what the command wrote.
C30_TruncateOrAppend ==
    Finished =>
        /\ (stdout.kind = "File" /\ StdoutText.some) =>
            files[stdout.path] =
                Some(IF stdout.append THEN Before(stdout.path) \o StdoutText.val
                     ELSE StdoutText.val)
        /\ (stderr.kind = "File" /\ StderrText.some) =>
            files[stderr.path] =
                Some(IF stderr.append THEN Before(stderr.path) \o StderrText.val
                     ELSE StderrText.val)

(***************************************************************************)
(* The exit built-in of main.rs (Spec).                                    *)
(***************************************************************************)
\* The exit code the claim gives to exit with these arguments.
ExitCode(args) ==
    IF args # << >> /\ parse_i32(args[1]).some THEN parse_i32(args[1]).val ELSE 0

\* The thread of stage k has run its handler to the end and the process
\* goes on.
Returned(k) == thread[k] \in {"ok", "err"}

\* C25 (as claimed): an exit that is run ends the process, with the code of
\* its first argument when that is an integer and with 0 otherwise, and the
\* process is ended by nothing but an exit.
C25_ExitTerminates ==
    /\ \A k \in DOMAIN stages : stages[k].command = exit => ~Returned(k)
    /\ exit_status.some =>
        \E k \in DOMAIN stages :
            /\ stages[k].command = exit
            /\ exit_status.val = ExitCode(stages[k].args)

\* C25 (amended): an exit with at most one argument that is run ends the
\* process, with the code of its argument when that is an integer and with
\* 0 otherwise; an exit with more arguments never ends the process; and the
\* process is ended by nothing but an exit.
C25_ExitWithOneArgument ==
    /\ \A k \in DOMAIN stages :
        (stages[k].command = exit /\ Len(stages[k].args) <= 1) => ~Returned(k)
    /\ exit_status.some =>
        \E k \in DOMAIN stages :
            /\ stages[k].command = exit
            /\ Len(stages[k].args) <= 1
            /\ exit_status.val = ExitCode(stages[k].args)

C25_Witness ==
    /\ shell = "exited"
    /\ Len(stages) = 1
    /\ stages[1].command = exit
    /\ stages[1].args = << <<"7">> >>
    /\ exit_status = [some |-> TRUE, val |-> 7]

(***************************************************************************)
(* The redirection targets of main.rs (Spec).                              *)
(***************************************************************************)
\* One of the redirection targets of the stage lies in a directory that does
\* not exist: the words parse, and the stage alone on its line ends at
\* checks_redirects.
MissingParent(input) == StagePlan(input, 0, 1, << >>, << >>).end = "err"

\* C31 (as claimed): the parent directories of a redirection target are
\* created when the target is opened, so handle never ends with the Err of
\* an open at a stage whose target lies in a missing directory.
C31_RedirectCreatesParents ==
    ~(/\ shell = "failed"
      /\ pc = "dispatch"
      /\ MissingParent(inputs[index + 1]))

(***************************************************************************)
(* Properties of write_output (WriteSpec).                                 *)
(***************************************************************************)
\* The writes that reached a file or the terminal, in order.
Writes == SelectSeq(io_log, LAMBDA e : e.op = "write")

\* What write! or writeln! gives for a text.
Rendered(t, flush) == IF flush THEN t ELSE t \o <<"\n">>

\* C32 (as claimed): a result of both texts is written by handing the
\* stdout text to the stdout of the command first and the stderr text to
\* its stderr second, with flush and without.
C32_StdoutBeforeStderr ==
    (exec_pc = "done" /\ exec_output.kind = "Builtin"
        /\ ResultOf(exec_output).shape = "StdoutAndStderr")
    => LET o == ResultOf(exec_output) IN
       Writes = << [op |-> "write", to |-> stdout, data |-> Rendered(o.out, o.flush)],
                   [op |-> "write", to |-> stderr, data |-> Rendered(o.err, o.flush)] >>

(***************************************************************************)
(* Properties of send_output (SendSpec).                                   *)
(***************************************************************************)
\* The opens of files, in order.
Opens == SelectSeq(io_log, LAMBDA e : e.op = "open")

\* C36 (as claimed): whatever the shape of the output, the file of stderr
\* is opened to append exactly when append_error is set: it is the only
\* file opened for an output of the stderr text alone and the last one
\* opened for an output of both texts.
C36_ErrorFileModeIsAppendError ==
    (exec_pc = "done" /\ stderr.kind = "File"
        /\ ResultOf(exec_output).shape \in {"Stderr", "StdoutAndStderr"})
    => /\ Opens # << >>
       /\ Opens[Len(Opens)].to.path = stderr.path
       /\ Opens[Len(Opens)].to.append = stderr.append
       /\ ResultOf(exec_output).shape = "Stderr" => Len(Opens) = 1

(***************************************************************************)
(* The loop of main and the two loops that end handle (Spec).              *)
(***************************************************************************)
\* Nothing of a line is held or run by handle.
NothingRun ==
    /\ line = << >> /\ inputs = << >>
    /\ stages = << >> /\ thread = << >> /\ child = << >>
    /\ handles = << >> /\ children = << >>

\* C33: when readline was interrupted, nothing is run and the shell is at
\* the prompt again, reading; when the input has ended, nothing is run and
\* the shell has ended.
C33_InterruptAndEof ==
    /\ readline = "Interrupted" =>
            (shell = "running" /\ pc = "prompt" /\ NothingRun /\ ENABLED ReadLine)
    /\ readline = "Eof" => (shell = "exited" /\ NothingRun)

C33_Witness ==
    /\ readline = "Interrupted"
    /\ shell = "running"
    /\ pc = "prompt"

\* C35: when handle is in its loop of child.wait(), no thread of a built-in
\* of the line runs any more and every one of them was joined.
C35_JoinedBeforeWait ==
    pc = "wait" =>
        /\ handles = << >>
        /\ \A k \in DOMAIN thread : thread[k] \in {"none", "ok"}

C35_Witness ==
    /\ shell = "running"
    /\ pc = "wait"
    /\ children # << >>
    /\ child[Head(children)] = "running"
    /\ \E k \in DOMAIN thread : thread[k] = "ok"

\* C38 (as claimed): a line of a built-in piped into a command that is not
\* found never ends handle with an Err, however its thread is scheduled.
C38_BuiltinIntoUnknownCommand ==
    (/\ Len(inputs) = 2 /\ Len(stages) = 2
     /\ stages[1].outcome = "thread"
     /\ stages[1].output.kind = "PipeWriter"
     /\ stages[2].outcome = "notfound")
    => shell # "failed"

(***************************************************************************)
(* The current working directory within one line (CwdSpec).                *)
(***************************************************************************)
\* The stages before stage k whose cd changes the directory.
CdsBefore(k) ==
    {j \in 1..(k - 1) : stages[j].command = cd /\ handle_cd(stages[j].args).chdir.some}

\* C34 (as claimed): the built-ins of a line run one at a time in stage
\* order, so the directory a pwd prints is the one the last cd of an
\* earlier stage of the line went to, whatever the schedule.
C34_PwdSeesEarlierCd ==
    \A k \in DOMAIN printed :
        (printed[k].some /\ CdsBefore(k) # {}) =>
            LET j == CHOOSE i \in CdsBefore(k) : \A h \in CdsBefore(k) : h <= i IN
            printed[k].val = handle_cd(stages[j].args).chdir.val

(***************************************************************************)
(* The two passes of tokenize (LexSpec).                                   *)
(***************************************************************************)
\* The for loop of tokenize has ended with no escape pending and no quote
\* open: tokenize raises neither TrailingEscape nor UnclosedQuote itself.
FirstPassOk == lex_pc = "done" /\ ~escaped /\ ~in_quote.some

\* C37: when the first pass of tokenize raises no error, process_string
\* succeeds on every token the first pass made, and tokenize returns Ok
\* with one word for each of them.
C37_PassesAgree ==
    FirstPassOk =>
        /\ \A i \in DOMAIN tokens : process_string(tokens[i]).ok
        /\ tokenized.ok
        /\ Len(tokenized.val) = Len(tokens)

C37_Witness ==
    /\ FirstPassOk
    /\ tokens = << <<DQ, BS, DQ, DQ>> >>
    /\ tokenized.ok
    /\ tokenized.val = << <<DQ>> >>

====
